---- MODULE Spec2Model ----
(***************************************************************************)
(* TradeHub engine: broker-paste parsing, strategy classification,         *)
(* position sizing and hold/roll/close recommendations.                     *)
(*                                                                         *)
(* Units: cash and strikes are whole dollars in the sizer; prices are     *)
(* cents in the parsers and the screener rows, and a GTC basis is tenths   *)
(* of a cent; deltas are hundredths (0.55 is 55); dates are day numbers.   *)
(* Python's None is the integer None below, which no modelled quantity     *)
(* takes as a value.                                                       *)
(***************************************************************************)
EXTENDS Integers, Sequences, FiniteSets, TLC

VARIABLES
    acct,       \* sizer: the dict returned by load_account_state
    cand,       \* sizer: the candidate row being sized
    sizing,     \* sizer: the dict returned by the size_* function
    script,     \* monitors: which monitor script is run
    lines,      \* monitors: the normalized pasted lines
    alt,        \* monitors: a second paste, the first one with a data row permuted
    pc,         \* monitors: position of main()
    under,      \* monitors: detect_underlyings(lines)
    opts,       \* monitors: parse_options(lines)
    optsAlt,    \* monitors: parse_options(alt)
    tickets,    \* monitors: the tickets main() rendered
    argv,       \* monitors: the --fill and --gtc arguments of the run
    tiers,      \* monitors: the GTC tiers report() works with
    notice,     \* monitors: the message main() prints instead of a ticket
    metrics,    \* monitors: the key metrics report() prints, per ticket
    market_state, \* Untitled-2: what load_market_state returned
    policy_src, \* Untitled-2: "default" or "file", where the policy came from
    P,          \* Untitled-2: the targets resolve_pmcc_targets returned
    blob,       \* portfolio/card: the pasted group of lines
    today,      \* portfolio/card: the day the run takes place
    pos,        \* portfolio/card: the parsed position
    verdict,    \* portfolio/card and monitors: the recommendation produced
    call,       \* metrics: the function called and its arguments
    ret,        \* metrics: what the call returned
    policyFile, \* leap_lifecycle: data/strategy_policy.yml, or NoFile
    POLICY_DEFAULT, \* leap_lifecycle: the module-level dict of defaults
    policy      \* leap_lifecycle: the dict the last load_policy returned

vars == <<acct, cand, sizing, script, lines, alt, pc, under, opts, optsAlt, tickets,
          argv, tiers, notice, metrics, market_state, policy_src, P, blob, today, pos, verdict,
          call, ret, policyFile, POLICY_DEFAULT, policy>>

sizerVars == <<acct, cand, sizing>>
monitorVars ==
    <<script, lines, alt, pc, under, opts, optsAlt, tickets, argv, tiers, notice, metrics,
      market_state, policy_src, P>>
portfolioVars == <<blob, today, pos, verdict>>
calcVars == <<call, ret>>
policyVars == <<policyFile, POLICY_DEFAULT, policy>>

None == 0 - 1000000

Min(a, b) == IF a <= b THEN a ELSE b
Max(a, b) == IF a >= b THEN a ELSE b
Abs(a) == IF a < 0 THEN 0 - a ELSE a

\* Python's `x or 0` on an optional number.
OrZero(x) == IF x = None THEN 0 ELSE x

(***************************************************************************)
(* Python floats (IEEE-754 binary64, round to nearest, ties to even)        *)
(***************************************************************************)

\* Natural numbers of any size: little-endian sequences of 15-bit limbs
\* without high zero limbs; <<>> is 0.
Limb == 2 ^ 15

RECURSIVE BTrim(_)
BTrim(a) ==
    IF a = <<>> THEN <<>>
    ELSE IF a[Len(a)] = 0 THEN BTrim(SubSeq(a, 1, Len(a) - 1))
    ELSE a

RECURSIVE BNat(_)
BNat(n) == IF n = 0 THEN <<>> ELSE <<n % Limb>> \o BNat(n \div Limb)

RECURSIVE BInt(_)
BInt(a) == IF a = <<>> THEN 0 ELSE a[1] + Limb * BInt(Tail(a))

Rest(a) == IF a = <<>> THEN <<>> ELSE Tail(a)
First(a) == IF a = <<>> THEN 0 ELSE a[1]

RECURSIVE BAddC(_, _, _)
BAddC(a, b, c) ==
    IF a = <<>> /\ b = <<>> THEN BNat(c)
    ELSE <<(First(a) + First(b) + c) % Limb>>
            \o BAddC(Rest(a), Rest(b), (First(a) + First(b) + c) \div Limb)
BAdd(a, b) == BAddC(a, b, 0)

\* a - b for a >= b
RECURSIVE BSubB(_, _, _)
BSubB(a, b, borrow) ==
    IF a = <<>> THEN <<>>
    ELSE <<(a[1] - First(b) - borrow + Limb) % Limb>>
            \o BSubB(Tail(a), Rest(b), IF a[1] - First(b) - borrow < 0 THEN 1 ELSE 0)
BSub(a, b) == BTrim(BSubB(a, b, 0))

RECURSIVE BCmpAt(_, _, _)
BCmpAt(a, b, i) ==
    IF i = 0 THEN 0
    ELSE IF a[i] > b[i] THEN 1
    ELSE IF a[i] < b[i] THEN 0 - 1
    ELSE BCmpAt(a, b, i - 1)
BCmp(a, b) ==
    IF Len(a) > Len(b) THEN 1
    ELSE IF Len(a) < Len(b) THEN 0 - 1
    ELSE BCmpAt(a, b, Len(a))

\* a * m + c for a small m
RECURSIVE BMulSmallC(_, _, _)
BMulSmallC(a, m, c) ==
    IF a = <<>> THEN BNat(c)
    ELSE <<(a[1] * m + c) % Limb>> \o BMulSmallC(Tail(a), m, (a[1] * m + c) \div Limb)
BMulSmall(a, m) == BTrim(BMulSmallC(a, m, 0))

BTimesLimb(a) == IF a = <<>> THEN <<>> ELSE <<0>> \o a

RECURSIVE BMul(_, _)
BMul(a, b) ==
    IF a = <<>> THEN <<>>
    ELSE BAdd(BMulSmall(b, a[1]), BTimesLimb(BMul(Tail(a), b)))

LimbAt(a, i) == IF i \in 1..Len(a) THEN a[i] ELSE 0

\* a * 2^k: whole limbs of zeros, then each limb's low bits over the bits
\* carried out of the limb below
BShl(a, k) ==
    IF a = <<>> THEN <<>>
    ELSE [i \in 1..(k \div 15) |-> 0]
            \o BTrim([i \in 1..(Len(a) + 1) |->
                        (LimbAt(a, i) % (2 ^ (15 - (k % 15)))) * (2 ^ (k % 15))
                            + LimbAt(a, i - 1) \div (2 ^ (15 - (k % 15)))])

\* a \div 2^k
BShr(a, k) ==
    IF k \div 15 >= Len(a) THEN <<>>
    ELSE BTrim([i \in 1..(Len(a) - k \div 15) |->
                  a[i + k \div 15] \div (2 ^ (k % 15))
                      + (LimbAt(a, i + k \div 15 + 1) % (2 ^ (k % 15))) * (2 ^ (15 - (k % 15)))])

\* quotient and remainder of a by a small d, from the highest limb down: q
\* holds the digits found so far and r the remainder they leave
RECURSIVE BDivSmallFrom(_, _, _, _)
BDivSmallFrom(a, d, q, r) ==
    IF Len(q) = Len(a) THEN [q |-> BTrim(q), r |-> r]
    ELSE BDivSmallFrom(a, d, <<(r * Limb + a[Len(a) - Len(q)]) \div d>> \o q,
                       (r * Limb + a[Len(a) - Len(q)]) % d)
BDivSmall(a, d) == BDivSmallFrom(a, d, <<>>, 0)

BBit(a, i) ==
    IF i \div 15 >= Len(a) THEN 0 ELSE (a[i \div 15 + 1] \div (2 ^ (i % 15))) % 2

\* some bit below position n is set
BLowBits(a, n) ==
    \/ \E j \in 1..Min(Len(a), n \div 15) : a[j] # 0
    \/ n \div 15 < Len(a) /\ a[n \div 15 + 1] % (2 ^ (n % 15)) # 0

RECURSIVE BitsOf(_)
BitsOf(n) == IF n = 0 THEN 0 ELSE 1 + BitsOf(n \div 2)
BBitLen(a) == IF a = <<>> THEN 0 ELSE 15 * (Len(a) - 1) + BitsOf(a[Len(a)])

\* the greatest digit g < Limb with g * d <= cur, for cur < d * Limb: counted
\* down from the quotient of the two leading limbs of cur by the leading limb
\* of d, which is at most two above it when d's leading limb has its top bit
BDigitGuess(cur, d) ==
    Min(Limb - 1, (LimbAt(cur, Len(d) + 1) * Limb + LimbAt(cur, Len(d))) \div d[Len(d)])
RECURSIVE BDigit(_, _, _)
BDigit(cur, d, g) ==
    IF BCmp(BMulSmall(d, g), cur) > 0 THEN BDigit(cur, d, g - 1) ELSE g

\* quotient and remainder of a by d # 0, by long division from the highest
\* limb down: q holds the digits found so far and r the remainder they leave.
\* The limbs of a above d's length are less than d: their digits are 0.
RECURSIVE BDivModFrom(_, _, _, _)
BDivModPut(a, d, q, cur, g) == BDivModFrom(a, d, <<g>> \o q, BSub(cur, BMulSmall(d, g)))
BDivModCur(a, d, q, cur) == BDivModPut(a, d, q, cur, BDigit(cur, d, BDigitGuess(cur, d)))
BDivModFrom(a, d, q, r) ==
    IF Len(q) = Len(a) THEN [q |-> BTrim(q), r |-> r]
    ELSE BDivModCur(a, d, q, BTrim(<<a[Len(a) - Len(q)]>> \o r))
BDivMod(a, d) ==
    IF Len(a) < Len(d) THEN [q |-> <<>>, r |-> a]
    ELSE BDivModFrom(a, d, [i \in 1..(Len(d) - 1) |-> 0],
                     BTrim(SubSeq(a, Len(a) - Len(d) + 2, Len(a))))

\* A float is sgn * m * 2^e with m of exactly 53 bits, or zero.
FZero == [sgn |-> 1, m |-> <<>>, e |-> 0]

\* q, the bits of n above position t, rounded by the bits below: up when the
\* bit below is set and either a lower bit or the last bit of q is
RoundHalfEven(n, t, q) ==
    IF BBit(n, t - 1) = 1 /\ (BLowBits(n, t - 1) \/ BBit(q, 0) = 1)
    THEN BAdd(q, <<1>>) ELSE q
FNormal(sgn, q, e) ==
    IF BBitLen(q) = 54 THEN [sgn |-> sgn, m |-> BShr(q, 1), e |-> e + 1]
    ELSE [sgn |-> sgn, m |-> q, e |-> e]
\* sgn * n * 2^e rounded to 53 bits, len being the number of bits of n
FRoundLen(sgn, n, e, len) ==
    IF len = 0 THEN FZero
    ELSE IF len <= 53 THEN [sgn |-> sgn, m |-> BShl(n, 53 - len), e |-> e - (53 - len)]
    ELSE FNormal(sgn, RoundHalfEven(n, len - 53, BShr(n, len - 53)), e + len - 53)
FRound(sgn, n, e) == FRoundLen(sgn, n, e, BBitLen(n))

\* the number of zero bits below the lowest set bit of a # 0
RECURSIVE LowZeros(_)
LowZeros(n) == IF n % 2 = 1 THEN 0 ELSE 1 + LowZeros(n \div 2)
RECURSIVE BLowZeros(_)
BLowZeros(a) == IF a[1] = 0 THEN 15 + BLowZeros(Tail(a)) ELSE LowZeros(a[1])

\* sgn * (n / d) * 2^e rounded: 56 or more quotient bits and a sticky bit.
\* A divisor that is a single limb times a power of two is divided by
\* limb-wise; any other by long division, with both sides shifted so that the
\* divisor's leading limb has its top bit.
FSticky(sgn, q, r, e) == FRound(sgn, BAdd(BShl(q, 1), IF r = 0 THEN <<>> ELSE <<1>>), e)
FQuotSmall(sgn, dm, e) == FSticky(sgn, dm.q, dm.r, e)
FQuotLong(sgn, dm, e) == FSticky(sgn, dm.q, Len(dm.r), e)
FRatioLong(sgn, n, odd, k, s, e) ==
    FQuotLong(sgn, BDivMod(BShl(n, k + s), BShl(odd, s)), e - k - 1)
FRatioShift(sgn, n, odd, k, e) ==
    IF Len(odd) = 1 THEN FQuotSmall(sgn, BDivSmall(BShl(n, k), odd[1]), e - k - 1)
    ELSE FRatioLong(sgn, n, odd, k, 15 * Len(odd) - BBitLen(odd), e)
FRatioOdd(sgn, n, odd, e) ==
    FRatioShift(sgn, n, odd, Max(0, 56 + BBitLen(odd) - BBitLen(n)), e)
FRatioZeros(sgn, n, d, z, e) == FRatioOdd(sgn, n, BShr(d, z), e - z)
FRatio(sgn, n, d, e) ==
    IF n = <<>> THEN FZero ELSE FRatioZeros(sgn, n, d, BLowZeros(d), e)

Sign(n) == IF n < 0 THEN 0 - 1 ELSE 1
FInt(n) == FRound(Sign(n), BNat(Abs(n)), 0)
\* float("n/d as a decimal"), e.g. FDec(110, 100) is float("1.10")
FDec(n, d) == FRatio(Sign(n), BNat(Abs(n)), BNat(d), 0)

FIsZero(a) == a.m = <<>>
FNeg(a) == IF FIsZero(a) THEN a ELSE [sgn |-> 0 - a.sgn, m |-> a.m, e |-> a.e]
FAbs(a) == [sgn |-> 1, m |-> a.m, e |-> a.e]

FMul(a, b) ==
    IF FIsZero(a) \/ FIsZero(b) THEN FZero
    ELSE FRound(a.sgn * b.sgn, BMul(a.m, b.m), a.e + b.e)

FDiv(a, b) ==
    IF FIsZero(a) THEN FZero ELSE FRatio(a.sgn * b.sgn, a.m, b.m, a.e - b.e)

\* sa * na * 2^e - sb * nb * 2^e rounded
FSubAligned(sa, na, sb, nb, e) ==
    IF sa # sb THEN FRound(sa, BAdd(na, nb), e)
    ELSE IF BCmp(na, nb) >= 0 THEN FRound(sa, BSub(na, nb), e)
    ELSE FRound(0 - sa, BSub(nb, na), e)
FSubAt(a, b, e) == FSubAligned(a.sgn, BShl(a.m, a.e - e), b.sgn, BShl(b.m, b.e - e), e)
FSub(a, b) ==
    IF FIsZero(b) THEN a
    ELSE IF FIsZero(a) THEN FNeg(b)
    ELSE FSubAt(a, b, Min(a.e, b.e))
FAdd(a, b) == FSub(a, FNeg(b))

FIsNegative(d) == ~FIsZero(d) /\ d.sgn < 0
FLess(a, b) == FIsNegative(FSub(a, b))
FLeq(a, b) == ~FLess(b, a)
FMinOf(a, b) == IF FLess(b, a) THEN b ELSE a
FMaxOf(a, b) == IF FLess(a, b) THEN b ELSE a

\* math.floor of a float
FFloor(a) ==
    IF FIsZero(a) THEN 0
    ELSE IF a.e >= 0 THEN a.sgn * BInt(BShl(a.m, a.e))
    ELSE IF a.sgn > 0 THEN BInt(BShr(a.m, 0 - a.e))
    ELSE IF BLowBits(a.m, 0 - a.e) THEN 0 - BInt(BShr(a.m, 0 - a.e)) - 1
    ELSE 0 - BInt(BShr(a.m, 0 - a.e))

\* int() of a float: towards zero
FTrunc(a) == a.sgn * FFloor(FAbs(a))

\* The integer nearest to a * k, an exact half going to the even neighbour:
\* round(a) for k = 1; for k = 100 the cents of round(a, 2) and of
\* f"{a:.2f}", which round the exact binary value.
RoundScaled(sgn, n, e) ==
    IF e >= 0 THEN sgn * BInt(BShl(n, e))
    ELSE sgn * BInt(RoundHalfEven(n, 0 - e, BShr(n, 0 - e)))
RoundTo(a, k) ==
    IF FIsZero(a) THEN 0 ELSE RoundScaled(a.sgn, BMulSmall(a.m, k), a.e)

\* float("x.yz") of an amount or a delta given in hundredths
FH(h) == FDec(h, 100)

\* None where a float is expected
FNone == [sgn |-> 0, m |-> <<>>, e |-> 0]

\* The cents an optional float prints as with two decimals
Cents(a) == IF a = FNone THEN None ELSE RoundTo(a, 100)

(***************************************************************************)
(* Position Sizer (rank_csp.py, rank_pmcc.py, rank_verticals.py)           *)
(***************************************************************************)

\* Bounds of the sizer inputs.
MaxCash == 6
MaxStrike == 4
MaxPrice == 4

\* float(total) * float(per_trade_cap_pct): the cap is the float product.
load_account_state(total, per_trade_pct, cash) ==
    [total_value |-> total,
     cash_available |-> cash,
     per_trade_cap_pct |-> per_trade_pct,
     per_trade_cap |-> FMul(FInt(total), FDec(per_trade_pct, 100))]

\* The policy tables of the three rankers; deltas in hundredths.
POLICY == [dte_min |-> 21, dte_max |-> 60, delta_min |-> 15, delta_max |-> 35,
           oi_min |-> 100]
POL == [leap_dte_min |-> 180, leap_delta_min |-> 65,
        short_dte_min |-> 28, short_dte_max |-> 45,
        short_delta_min |-> 15, short_delta_max |-> 55, short_oi_min |-> 100]
BCALL == [dte_min |-> 21, short_delta_min |-> 30, short_delta_max |-> 50,
          debit_max_width |-> FDec(70, 100)]
BPUT == [dte_min |-> 21, short_delta_min |-> 30, short_delta_max |-> 50,
         credit_min_width |-> FDec(33, 100)]

\* rank_csp.pass_policy: a row without a DTE, a delta or an open interest
\* fails, as does one outside the DTE window, the delta band or under the
\* open-interest floor.
pass_policy(r) ==
    /\ r.dte # None /\ r.delta_abs # None /\ r.oi # None
    /\ POLICY.dte_min <= r.dte /\ r.dte <= POLICY.dte_max
    /\ POLICY.delta_min <= r.delta_abs /\ r.delta_abs <= POLICY.delta_max
    /\ r.oi >= POLICY.oi_min

\* rank_pmcc.pair_candidates on one LEAP row and one short-call row of the
\* same symbol: whether the pair is kept.  read_leaps gives dte 0 for a
\* missing DTE; a missing LEAP delta counts as 0.
pair_candidates(L, S) ==
    /\ ~(L.dte < POL.leap_dte_min \/ OrZero(L.delta) < POL.leap_delta_min)
    /\ POL.short_dte_min <= S.dte /\ S.dte <= POL.short_dte_max
    /\ POL.short_delta_min <= S.delta_abs /\ S.delta_abs <= POL.short_delta_max
    /\ S.oi >= POL.short_oi_min

\* The policy filters of rank_verticals.main: DTE of at least 21 days, short
\* delta within 0.30-0.50, and debit / width <= 0.70 for a bull call, credit /
\* width >= 0.33 for a bull put; a row with a width of 0 is dropped.
bull_call_passes(x) ==
    /\ x.dte >= BCALL.dte_min
    /\ BCALL.short_delta_min <= x.short_delta /\ x.short_delta <= BCALL.short_delta_max
    /\ x.width # 0
    /\ FLeq(FDiv(FDec(x.debit, 100), FDec(x.width, 100)), BCALL.debit_max_width)
bull_put_passes(x) ==
    /\ x.dte >= BPUT.dte_min
    /\ BPUT.short_delta_min <= x.short_delta /\ x.short_delta <= BPUT.short_delta_max
    /\ x.width # 0
    /\ FLeq(BPUT.credit_min_width, FDiv(FDec(x.credit, 100), FDec(x.width, 100)))

Blocked(reason, req) ==
    [contracts |-> 0, status |-> "blocked", reason |-> reason, required_cash |-> req]

\* The body the four sizers share: per is the float requirement of one
\* contract, hard_cap the float budget, part the share of per under which
\* the cash left after one contract is tight.
sized(per, hard_cap, cash, part, unit) ==
    IF FLeq(hard_cap, FZero) \/ FLeq(per, FZero)
    THEN Blocked("no cash", FZero)
    ELSE LET n == FFloor(FDiv(hard_cap, per))
             req == FMul(FInt(n), per)
             remain == FSub(cash, req)
             tight == n = 1 /\ FLess(remain, FMul(per, part))
         IN  IF n <= 0
             THEN Blocked(IF unit = "contract" THEN "not enough for 1 contract"
                          ELSE "not enough for 1 spread", per)
             ELSE [contracts |-> n,
                   status |-> IF tight THEN "tight" ELSE "ok",
                   reason |-> IF ~tight THEN "fits within cash/per-trade cap"
                              ELSE IF unit = "contract"
                              THEN "low remaining cash after 1 contract"
                              ELSE "low remaining cash after 1 spread",
                   required_cash |-> req]

Quarter == FDec(25, 100)
Half == FDec(50, 100)

\* The float requirement of one contract or spread, as each sizer computes it.
\* r.strike is in dollars: per_contract_cash = (strike or 0) * 100.0.
per_contract_cash(r) == FMul(FInt(OrZero(r.strike)), FInt(100))
\* L.ask is in cents, float(ask) is FDec(ask, 100):
\* per_contract_debit = (ask or 0.0) * 100.0.
per_contract_debit(L) == FMul(FDec(OrZero(L.ask), 100), FInt(100))
\* per = (debit or 0.0) * 100.0
per_bull_call(x) == FMul(FDec(OrZero(x.debit), 100), FInt(100))
\* per = max(0.0, width - credit) * 100.0
per_bull_put(x) ==
    FMul(FMaxOf(FZero, FSub(FDec(x.width, 100), FDec(x.credit, 100))), FInt(100))

\* hard_cap = min(acct["cash_available"], acct["per_trade_cap"])
hard_cap(a) == FMinOf(FInt(a.cash_available), a.per_trade_cap)

size_csp_cap_is_max(r, a) ==
    sized(per_contract_cash(r), FMaxOf(FInt(a.cash_available), a.per_trade_cap),
          FInt(a.cash_available), Quarter, "contract")

size_csp(r, a) ==
    sized(per_contract_cash(r), hard_cap(a), FInt(a.cash_available), Quarter, "contract")

size_pmcc(L, a) ==
    sized(per_contract_debit(L), hard_cap(a), FInt(a.cash_available), Quarter, "contract")

size_bull_call_tight_below_half(x, a) ==
    sized(per_bull_call(x), hard_cap(a), FInt(a.cash_available), Half, "spread")

size_bull_call(x, a) ==
    sized(per_bull_call(x), hard_cap(a), FInt(a.cash_available), Quarter, "spread")

size_bull_put(x, a) ==
    sized(per_bull_put(x), hard_cap(a), FInt(a.cash_available), Quarter, "spread")

\* Account files and --cash overrides: cash in steps of $250 and possibly
\* overdrawn, or $550 or $1,100; total value a multiple of $50,000;
\* per-trade cap 1% or 2%.  One more account holds $250 of cash with a cap
\* of 7% of $1,800, the double 126.00000000000001.
CashValues == {250 * k : k \in (0 - 1)..MaxCash} \cup {550, 1100}
TotalValues == {0, 50000, 100000}
CapPcts == {1, 2}
Accounts ==
    {load_account_state(total, pct, cash) :
        total \in TotalValues, pct \in CapPcts, cash \in CashValues}
    \cup {load_account_state(1800, 7, 250)}

\* Screener rows as the readers return them, one row per file and each with
\* its symbol and expiry date: strike in dollars; ask, debit, width and
\* credit in cents per share (so per contract in dollars); deltas in
\* hundredths.  A missing strike or ask is None; the readers of
\* rank_verticals drop a row without a price or a width and turn a missing
\* DTE or delta into 0, as read_leaps and read_short_calls do with a missing
\* DTE or open interest.  $0.14, $1.10 and $4.40 are prices whose float,
\* times 100, is not exact.
StrikeValues == {None} \cup {3 * k : k \in 0..MaxStrike}
PriceValues == {None} \cup {150 * k : k \in 0..MaxPrice} \cup {14, 110, 440}
WidthValues == {0, 100, 500, 1000}
CreditValues == {0, 50, 95, 100, 200}

\* read_csp_rows: one put row.
CspRow(dte, delta_abs, oi, strike, ask) ==
    [src |-> "csp", dte |-> dte, delta_abs |-> delta_abs, oi |-> oi,
     strike |-> strike, ask |-> ask]
\* read_leaps and read_short_calls: one call row each.
LeapCsvRow(dte, delta, strike, ask) ==
    [dte |-> dte, delta |-> delta, strike |-> strike, ask |-> ask]
ShortCsvRow(dte, delta_abs, oi, strike) ==
    [dte |-> dte, delta_abs |-> delta_abs, oi |-> oi, strike |-> strike]
Pair(L, S) == [src |-> "pmcc", L |-> L, S |-> S]
\* read_bull_call and read_bull_put: one spread row.
BullCallRow(dte, short_delta, debit, width) ==
    [src |-> "bull_call", dte |-> dte, short_delta |-> short_delta,
     debit |-> debit, width |-> width]
BullPutRow(dte, short_delta, credit, width) ==
    [src |-> "bull_put", dte |-> dte, short_delta |-> short_delta,
     credit |-> credit, width |-> width]

\* The screening columns of a row: one column at a time at, next to or off
\* the edge of its window, the others well inside.
CspScreens ==
    {<<d, 25, 5200>> : d \in {None, 20, 21, 60, 61}}
    \cup {<<45, x, 5200>> : x \in {None, 14, 15, 35, 36}}
    \cup {<<45, 25, o>> : o \in {None, 99, 100}}
LeapScreens ==
    {<<d, 80>> : d \in {0, 179, 180, 400}} \cup {<<400, x>> : x \in {None, 64, 65}}
ShortScreens ==
    {<<d, 30, 5200>> : d \in {27, 28, 45, 46}}
    \cup {<<35, x, 5200>> : x \in {14, 15, 55, 56}}
    \cup {<<35, 30, o>> : o \in {0, 99, 100}}
SpreadScreens ==
    {<<d, 40>> : d \in {0, 20, 21, 45}} \cup {<<45, x>> : x \in {0, 29, 30, 50, 51}}

CspRows ==
    {CspRow(f[1], f[2], f[3], k, a) :
        f \in CspScreens, k \in StrikeValues, a \in {None, 110}}
Pairs ==
    {Pair(LeapCsvRow(f[1], f[2], 190, p), ShortCsvRow(35, 30, 5200, 250)) :
        f \in LeapScreens, p \in PriceValues}
    \cup {Pair(LeapCsvRow(400, 80, 190, p), ShortCsvRow(g[1], g[2], g[3], 250)) :
             g \in ShortScreens, p \in PriceValues}
    \cup {Pair(LeapCsvRow(400, 80, k[1], p), ShortCsvRow(35, 30, 5200, k[2])) :
             k \in {<<None, 250>>, <<190, None>>}, p \in PriceValues}
BullCallRows ==
    {BullCallRow(f[1], f[2], p, w) :
        f \in SpreadScreens, p \in PriceValues \ {None}, w \in WidthValues}
BullPutRows ==
    {BullPutRow(f[1], f[2], c, w) :
        f \in SpreadScreens, c \in CreditValues, w \in WidthValues}

NoSizing == [kind |-> "none", contracts |-> 0, status |-> "none",
             reason |-> "none", required_cash |-> FZero]

Sized(kind, s) ==
    [kind |-> kind, contracts |-> s.contracts, status |-> s.status,
     reason |-> s.reason, required_cash |-> s.required_cash]

\* main() sized nothing: the policy filter dropped the row.
Dropped(kind) ==
    [kind |-> kind, contracts |-> 0, status |-> "dropped",
     reason |-> "no candidates passed policy filters", required_cash |-> FZero]

\* main() ended in an uncaught exception and wrote no suggestions.
Raised(kind, error) ==
    [kind |-> kind, contracts |-> 0, status |-> "raised",
     reason |-> error, required_cash |-> FZero]

\* Idle values of the variables a specification does not use.
IdleMonitor ==
    /\ script = "none" /\ lines = <<>> /\ alt = <<>> /\ pc = "idle" /\ under = <<>>
    /\ opts = <<>> /\ optsAlt = <<>> /\ tickets = {}
    /\ argv = <<>> /\ tiers = <<>> /\ notice = "" /\ metrics = {}
    /\ market_state = <<>> /\ policy_src = "" /\ P = <<>>
IdlePortfolio ==
    /\ blob = <<>> /\ today = <<>> /\ pos = <<>> /\ verdict = <<>>
IdleSizer ==
    /\ acct = <<>> /\ cand = <<>> /\ sizing = NoSizing
IdleCalc ==
    /\ call = <<>> /\ ret = <<>>
IdlePolicy ==
    /\ policyFile = <<>> /\ POLICY_DEFAULT = <<>> /\ policy = <<>>

SizerInit ==
    /\ acct \in Accounts
    /\ cand \in CspRows \cup Pairs \cup BullCallRows \cup BullPutRows
    /\ sizing = NoSizing
    /\ IdleMonitor
    /\ IdlePortfolio
    /\ IdleCalc
    /\ IdlePolicy

\* rank_csp.main on the one row of the file: the row is sized when pass_policy
\* keeps it; the table line formats the strike and the ask with :.2f, a
\* TypeError on None.
rank_csp_main(r, a) ==
    IF ~pass_policy(r) THEN Dropped("csp")
    ELSE IF r.strike = None \/ r.ask = None THEN Raised("csp", "TypeError")
    ELSE Sized("csp", size_csp(r, a))

\* rank_pmcc.main on one LEAP row and one short-call row: the LEAP of a pair
\* that pair_candidates keeps is sized; the table line formats both strikes
\* with :.2f.
rank_pmcc_main(pair, a) ==
    IF ~pair_candidates(pair.L, pair.S) THEN Dropped("pmcc")
    ELSE IF pair.L.strike = None \/ pair.S.strike = None THEN Raised("pmcc", "TypeError")
    ELSE Sized("pmcc", size_pmcc(pair.L, a))

\* rank_verticals.main on the one row of the bull-call file, and of the
\* bull-put file.
rank_bull_call_main(x, a) ==
    IF bull_call_passes(x) THEN Sized("bull_call", size_bull_call(x, a))
    ELSE Dropped("bull_call")
rank_bull_put_main(x, a) ==
    IF bull_put_passes(x) THEN Sized("bull_put", size_bull_put(x, a))
    ELSE Dropped("bull_put")

SizeCsp ==
    /\ sizing.kind = "none" /\ cand.src = "csp"
    /\ sizing' = rank_csp_main(cand, acct)
    /\ UNCHANGED <<acct, cand, monitorVars, portfolioVars, calcVars, policyVars>>

SizePmcc ==
    /\ sizing.kind = "none" /\ cand.src = "pmcc"
    /\ sizing' = rank_pmcc_main(cand, acct)
    /\ UNCHANGED <<acct, cand, monitorVars, portfolioVars, calcVars, policyVars>>

SizeBullCall ==
    /\ sizing.kind = "none" /\ cand.src = "bull_call"
    /\ sizing' = rank_bull_call_main(cand, acct)
    /\ UNCHANGED <<acct, cand, monitorVars, portfolioVars, calcVars, policyVars>>

SizeBullPut ==
    /\ sizing.kind = "none" /\ cand.src = "bull_put"
    /\ sizing' = rank_bull_put_main(cand, acct)
    /\ UNCHANGED <<acct, cand, monitorVars, portfolioVars, calcVars, policyVars>>

SizerNext == SizeCsp \/ SizePmcc \/ SizeBullCall \/ SizeBullPut

SpecSizer == SizerInit /\ [][SizerNext]_vars

\* A size_* function returned: main() neither dropped the row nor raised.
SizerResult == sizing.kind # "none" /\ sizing.status \in {"blocked", "tight", "ok"}

\* The per-contract requirement of the candidate sized: the float the sizer
\* works with.
PerContract(c) ==
    CASE c.src = "csp" -> per_contract_cash(c)
      [] c.src = "pmcc" -> per_contract_debit(c.L)
      [] c.src = "bull_call" -> per_bull_call(c)
      [] OTHER -> per_bull_put(c)

\* n times the float a, and the order of two such amounts, without rounding.
Times(n, a) == IF n = 0 THEN FZero ELSE [sgn |-> a.sgn, m |-> BMulSmall(a.m, n), e |-> a.e]
AtMost(a, b) == FLeq(a, b)
Below(a, b) == FLess(a, b)

\* a <= b * (1 + 2^-53) without rounding: a is at most b, or above it by no
\* more than the rounding of one float division.
WithinRounding(a, b) ==
    AtMost([sgn |-> a.sgn, m |-> a.m, e |-> a.e + 53],
           [sgn |-> b.sgn, m |-> BAdd(BShl(b.m, 53), b.m), e |-> b.e])

\* The budget of the account, never below zero.
Budget == FMaxOf(FZero, hard_cap(acct))

\* C1 as stated: every sizer result has contracts x requirement <= min(cash_available,
\* per_trade_cap), for every account state.
C1_SizingBoundAnyAccount ==
    SizerResult => AtMost(Times(sizing.contracts, PerContract(cand)), hard_cap(acct))

\* C1 amended: the contract count is at least 0 and contracts x requirement
\* is at most max(0, min(cash_available, per_trade_cap)) up to the rounding
\* of the float quotient the count is floored from: it exceeds that budget
\* by no more than one part in 2^53.
C1_SizingBound ==
    SizerResult =>
        /\ sizing.contracts >= 0
        /\ WithinRounding(Times(sizing.contracts, PerContract(cand)), Budget)

\* C1 witness: a sizer returned two or more contracts under a cap below the
\* cash, and their requirement is above the cap by a rounding error (a
\* $0.14 debit under the cap of 7% of $1,800: 9 contracts).
C1_Witness ==
    /\ SizerResult
    /\ sizing.contracts >= 2
    /\ Below(acct.per_trade_cap, FInt(acct.cash_available))
    /\ ~AtMost(Times(sizing.contracts, PerContract(cand)), Budget)

\* C1 without the rounding allowance: contracts x requirement <= max(0,
\* min(cash_available, per_trade_cap)) exactly, which fails on that account.
C1_SizingBoundExact ==
    SizerResult =>
        /\ sizing.contracts >= 0
        /\ AtMost(Times(sizing.contracts, PerContract(cand)), Budget)

(***************************************************************************)
(* Monitor scripts: pasted text -> underlyings and option legs              *)
(* (pmcc_monitor.py, csp_monitor.py, covered_call_monitor.py,               *)
(* verticals_monitor.py)                                                   *)
(***************************************************************************)

\* A whitespace-separated token of a pasted row:
\*   money "$45.30" "$-1.50" (n in cents, always with two decimals and no
\*   thousands separator), badmoney "$--", int "320" "+1" "-1",
\*   dec "0.82" "-0.30" (n in hundredths), word "N/A", flag "ITM"/"OTM",
\*   wflag "(ITM)"/"(OTM)" (the word inside punctuation), dashes "--" (a
\*   broker's placeholder for a missing value), dash "-", dollar "$" (what
\*   token_split leaves of an amount it cuts at the sign), absent (no token).
Tok(k, n, s) == [k |-> k, n |-> n, s |-> s]
Money(c) == Tok("money", c, "")
BadMoney == Tok("badmoney", 0, "")
IntTok(n) == Tok("int", n, "")
DecTok(h) == Tok("dec", h, "")
Word == Tok("word", 0, "")
Flag(f) == Tok("flag", 0, f)
WFlag(f) == Tok("wflag", 0, f)
Dashes == Tok("dashes", 0, "")
Dash == Tok("dash", 0, "")
Dollar == Tok("dollar", 0, "")
NoTok == Tok("absent", 0, "")

\* A normalized line: a bare ticker, an option header, a CALL/PUT/EXP label
\* row, a row of tokens, or any other text.
Line(k, sym, exp, strike, cp, toks) ==
    [k |-> k, sym |-> sym, exp |-> exp, strike |-> strike, cp |-> cp, toks |-> toks]
TickerLine(sym) == Line("ticker", sym, "", 0, "", <<>>)
HeaderLine(sym, exp, strike, cp) == Line("header", sym, exp, strike, cp, <<>>)
LabelLine == Line("label", "", "", 0, "", <<>>)
RowLine(toks) == Line("row", "", "", 0, "", toks)
TextLine == Line("text", "", "", 0, "", <<>>)

Symbols == {"AAPL", "QQQ"}

to_int(t) == IF t.k = "int" THEN t.n ELSE None

\* Floats are kept in hundredths.
to_float(t) ==
    CASE t.k = "int" -> 100 * t.n
      [] t.k = "dec" -> t.n
      [] OTHER -> None

\* line.startswith('$')
StartsWithDollar(l) ==
    l.k = "row" /\ Len(l.toks) > 0 /\ l.toks[1].k \in {"money", "badmoney", "dollar"}

\* MONEY_RE.match(line): the line begins with a well-formed amount.
MoneyMatch(l) ==
    IF l.k = "row" /\ Len(l.toks) > 0 /\ l.toks[1].k = "money"
    THEN l.toks[1].n ELSE None

\* MONEY_RE.search(row): the first well-formed amount anywhere in the row.
MoneySearch(toks) ==
    IF \E i \in 1..Len(toks) : toks[i].k = "money"
    THEN LET i == CHOOSE i \in 1..Len(toks) :
                      /\ toks[i].k = "money"
                      /\ \A j \in 1..(i - 1) : toks[j].k # "money"
         IN  toks[i].n
    ELSE None

\* re.fullmatch(r'[A-Z][A-Z0-9\.]{0,6}', line): the symbol when the whole
\* line is one short upper-case word, "" otherwise.  A row that holds nothing
\* but ITM or OTM is such a word.
TickerOf(l) ==
    IF l.k = "ticker" THEN l.sym
    ELSE IF l.k = "row" /\ Len(l.toks) = 1 /\ l.toks[1].k = "flag" THEN l.toks[1].s
    ELSE ""

NoUnder == [s \in Symbols \cup {"ITM", "OTM"} |-> None]

RECURSIVE DetectFrom(_, _, _, _)
DetectFrom(ls, i, sym, acc) ==
    IF i > Len(ls) THEN acc
    ELSE LET line == ls[i] IN
         IF TickerOf(line) # "" THEN DetectFrom(ls, i + 1, TickerOf(line), acc)
         ELSE IF sym # "" /\ StartsWithDollar(line)
              THEN DetectFrom(ls, i + 1, "",
                              IF MoneyMatch(line) # None
                              THEN [acc EXCEPT ![sym] = MoneyMatch(line)]
                              ELSE acc)
              ELSE DetectFrom(ls, i + 1, sym, acc)

detect_underlyings(ls) == DetectFrom(ls, 1, "", NoUnder)

Get(toks, i) == IF i \in 1..Len(toks) THEN toks[i] ELSE NoTok

\* token_split puts a space before every "+" and "-" and splits on spaces:
\* a signed number stays one token, "--" becomes two tokens "-", "$--"
\* becomes "$" "-" "-" and "$-1.50" becomes "$" "-1.50".
RECURSIVE token_split(_)
token_split(row) ==
    IF row = <<>> THEN <<>>
    ELSE (CASE Head(row).k = "dashes" -> <<Dash, Dash>>
            [] Head(row).k = "badmoney" -> <<Dollar, Dash, Dash>>
            [] Head(row).k = "money" /\ Head(row).n < 0 -> <<Dollar, DecTok(Head(row).n)>>
            [] OTHER -> <<Head(row)>>)
         \o token_split(Tail(row))

NoFields == [itm |-> "none", dte |-> None, delta |-> None, oi |-> None, qty |-> None]

\* ITM_RE.search(row): the first ITM/OTM word, bare or inside punctuation.
ItmSearch(toks) ==
    IF \E i \in 1..Len(toks) : toks[i].k \in {"flag", "wflag"}
    THEN LET i == CHOOSE i \in 1..Len(toks) :
                      /\ toks[i].k \in {"flag", "wflag"}
                      /\ \A j \in 1..(i - 1) : toks[j].k \notin {"flag", "wflag"}
         IN  toks[i].s
    ELSE "none"

\* The index of the first token equal to the flag found, 0 if there is none.
ItmIndex(toks, itm) ==
    IF \E i \in 1..Len(toks) : toks[i] = Flag(itm)
    THEN CHOOSE i \in 1..Len(toks) :
             /\ toks[i] = Flag(itm)
             /\ \A j \in 1..(i - 1) : toks[j] # Flag(itm)
    ELSE 0

\* A reader that takes the four fields from fixed columns of the row.
parse_fixed_columns(toks) ==
    LET itm == ItmSearch(toks)
    IN  IF itm = "none" THEN NoFields
        ELSE [itm |-> itm,
              dte |-> to_int(Get(toks, 3)),
              delta |-> to_float(Get(toks, 4)),
              oi |-> to_int(Get(toks, 5)),
              qty |-> to_int(Get(toks, 6))]

\* pmcc_monitor.py, csp_monitor.py, verticals_monitor.py
parse_after_itm_block(row) ==
    LET itm == ItmSearch(row)
        toks == token_split(row)
        idx == ItmIndex(toks, itm)
        qty == to_int(Get(toks, idx + 4))
        q2 == to_int(Get(toks, idx + 5))
    IN  IF itm = "none" THEN NoFields
        ELSE IF idx = 0 THEN [NoFields EXCEPT !.itm = itm]
        ELSE [itm |-> itm,
              dte |-> to_int(Get(toks, idx + 1)),
              delta |-> to_float(Get(toks, idx + 2)),
              oi |-> to_int(Get(toks, idx + 3)),
              qty |-> IF qty \notin {0 - 1, 1} /\ q2 \in {0 - 1, 1} THEN q2 ELSE qty]

\* covered_call_monitor.py: negative dte and out-of-range delta become None,
\* and the 5th token is tried only when the 4th parsed as an integer.
cc_parse_after_itm_block(row) ==
    LET itm == ItmSearch(row)
        toks == token_split(row)
        idx == ItmIndex(toks, itm)
        dte == to_int(Get(toks, idx + 1))
        delta == to_float(Get(toks, idx + 2))
        qty == to_int(Get(toks, idx + 4))
        q2 == to_int(Get(toks, idx + 5))
    IN  IF itm = "none" THEN NoFields
        ELSE IF idx = 0 THEN [NoFields EXCEPT !.itm = itm]
        ELSE [itm |-> itm,
              dte |-> IF dte # None /\ dte < 0 THEN None ELSE dte,
              delta |-> IF delta # None /\ ~(0 - 100 <= delta /\ delta <= 100)
                        THEN None ELSE delta,
              oi |-> to_int(Get(toks, idx + 3)),
              qty |-> IF qty # None /\ qty \notin {0 - 1, 1} /\ q2 \in {0 - 1, 1}
                      THEN q2 ELSE qty]

AfterItm(prog, toks) ==
    IF prog = "covered_call_monitor" THEN cc_parse_after_itm_block(toks)
    ELSE parse_after_itm_block(toks)

\* The header is followed by at most this many lines in which its data row is sought.
ScanWindow == 8

\* The inner while loop of parse_options: the index of the data row of the
\* header at line i, scanning from line j; 0 if the window holds none.
RECURSIVE FindDataRow(_, _, _)
FindDataRow(ls, i, j) ==
    IF ~(j <= Len(ls) /\ j <= i + ScanWindow) THEN 0
    ELSE IF ls[j].k = "label" THEN FindDataRow(ls, i, j + 1)
    ELSE IF StartsWithDollar(ls[j]) THEN j
    ELSE FindDataRow(ls, i, j + 1)

OptionRow(h, row, f) ==
    [symbol |-> h.sym, exp |-> h.exp, strike |-> h.strike, cp |-> h.cp,
     dte |-> f.dte, delta |-> f.delta, oi |-> f.oi, qty |-> f.qty,
     mark |-> MoneySearch(row), itm_flag |-> f.itm, raw |-> row]

RECURSIVE ParseFrom(_, _, _, _)
ParseFrom(prog, ls, i, acc) ==
    IF i > Len(ls) THEN acc
    ELSE IF ls[i].k # "header" THEN ParseFrom(prog, ls, i + 1, acc)
    ELSE LET j == FindDataRow(ls, i, i + 1) IN
         IF j = 0 THEN ParseFrom(prog, ls, i + 1, acc)
         ELSE ParseFrom(prog, ls, j + 1,
                        Append(acc, OptionRow(ls[i], ls[j].toks,
                                              AfterItm(prog, ls[j].toks))))

parse_options(prog, ls) == ParseFrom(prog, ls, 1, <<>>)

(***************************************************************************)
(* Monitor scripts: leg filters, picks and tickets                          *)
(***************************************************************************)

\* Python's `x or d` on an optional number: None and 0 are both falsy.
OrElse(x, d) == IF x = None \/ x = 0 THEN d ELSE x

LexLess(p, q) == p[1] < q[1] \/ (p[1] = q[1] /\ p[2] < q[2])

\* The float constants of the scripts.
F025 == FDec(25, 100)
F033 == FDec(33, 100)
F035 == FDec(35, 100)
F040 == FDec(40, 100)
F05 == FDec(5, 10)
F070 == FDec(70, 100)
F08 == FDec(8, 10)
F1 == FInt(1)

\* abs(abs(delta or target) - target) of the short legs' sort keys.
DeltaDistance(delta, target) ==
    FAbs(FSub(FAbs(IF delta = None \/ delta = 0 THEN target ELSE FH(delta)), target))

\* The order of the keys (integer, float), Key(r, i) being the i-th component
\* of the key of r; tuples are compared component by component, the second
\* only when the first are equal.
KeyLess(Key(_, _), a, b) ==
    \/ Key(a, 1) < Key(b, 1)
    \/ (Key(a, 1) = Key(b, 1) /\ FLess(Key(a, 2), Key(b, 2)))

\* sorted(rows, key=Key)[0]: the first row whose key is minimal (the sort is stable).
SortedFirst(rows, Key(_, _)) ==
    rows[CHOOSE i \in 1..Len(rows) :
            /\ \A j \in 1..Len(rows) \ {i} : ~KeyLess(Key, rows[j], rows[i])
            /\ \A j \in 1..(i - 1) : KeyLess(Key, rows[i], rows[j])]

\* sorted(rows, key=Key, reverse=True)[0]: the first row whose key is maximal.
SortedFirstReverse(rows, Key(_)) ==
    rows[CHOOSE i \in 1..Len(rows) :
            /\ \A j \in 1..Len(rows) : ~LexLess(Key(rows[i]), Key(rows[j]))
            /\ \A j \in 1..(i - 1) : LexLess(Key(rows[j]), Key(rows[i]))]

\* The symbols in the order main() first meets them (dict insertion order).
SymbolsOf(rows) == {rows[i].symbol : i \in 1..Len(rows)}
RowsOf(rows, sym) == SelectSeq(rows, LAMBDA o : o.symbol = sym)

Ticket(kind, sym, legs, recs) == [kind |-> kind, symbol |-> sym, legs |-> legs, recs |-> recs]

\* ---- csp_monitor.py ----
is_short_put(o, last) ==
    ~(o.cp # "P" \/ o.qty = None \/ o.qty >= 0 \/ o.dte = None)

csp_key(r, i) == IF i = 1 THEN Abs(OrZero(r.dte) - 35) ELSE DeltaDistance(r.delta, F025)

\* csp_monitor.main: one ticket per symbol holding a short put; report() prints
\* metrics and GTC targets but no recommendation.
csp_main(und, os) ==
    LET shorts == SelectSeq(os, LAMBDA o : is_short_put(o, und[o.symbol]))
    IN  {Ticket("csp", sym, <<SortedFirst(RowsOf(shorts, sym), csp_key)>>, {}) :
            sym \in SymbolsOf(shorts)}

\* ---- covered_call_monitor.py ----
ManageDte == 21

is_short_call(o) ==
    o.cp = "C" /\ (o.qty # None /\ o.qty < 0) /\ (o.dte # None)

\* The sweet spot is (28 + 45) / 2 = 36.5 days: the key is kept doubled.
cc_key(r, i) == IF i = 1 THEN Abs(2 * OrZero(r.dte) - 73) ELSE DeltaDistance(r.delta, F033)

\* The Recommendations block of covered_call_monitor.report.
cc_recs(last, short) ==
    LET tested == last # None /\ short.strike # None /\ last >= short.strike
        recs == (IF short.dte # None /\ short.dte <= ManageDte THEN {"roll_dte"} ELSE {})
                \cup (IF short.delta # None /\ Abs(short.delta) >= 55
                      THEN {"roll_delta"} ELSE {})
                \cup (IF tested THEN {"tested"} ELSE {})
    IN  IF recs = {} THEN {"hold"} ELSE recs

cc_main(und, os) ==
    LET shorts == SelectSeq(os, is_short_call)
    IN  {LET pick == SortedFirst(RowsOf(shorts, sym), cc_key)
         IN  Ticket("covered_call", sym, <<pick>>, cc_recs(und[sym], pick)) :
            sym \in SymbolsOf(shorts)}

\* ---- pmcc_monitor.py ----
is_long_leap_call(o, last) ==
    IF o.cp # "C" \/ o.qty = None \/ o.qty <= 0 \/ o.dte = None THEN FALSE
    ELSE /\ (o.itm_flag = "ITM") \/ (last # None /\ last > o.strike)
         /\ o.dte >= 90
         /\ (o.delta = None \/ o.delta >= 65)

is_short_near_call(o, last) ==
    IF o.cp # "C" \/ o.qty = None \/ o.qty >= 0 \/ o.dte = None THEN FALSE
    ELSE /\ (o.itm_flag = "OTM") \/ (last # None /\ last < o.strike)
         /\ 7 <= o.dte /\ o.dte <= 60
         /\ (o.delta = None \/ (15 <= Abs(o.delta) /\ Abs(o.delta) <= 55))

pmcc_long_key(r) == <<OrZero(r.dte), OrZero(r.delta)>>
pmcc_short_key(r, i) ==
    IF i = 1 THEN Abs(OrZero(r.dte) - 35) ELSE DeltaDistance(r.delta, F035)

\* The Recommendations block of pmcc_monitor.report: it looks at nothing but
\* whether the short strike is above the underlying's last price.
pmcc_recs(last, short) ==
    LET short_otm == last # None /\ last < OrZero(short.strike)
    IN  IF ~short_otm THEN {"roll_tested"} ELSE {"hold"}

pmcc_main(und, os) ==
    LET has(sym) ==
            /\ \E i \in 1..Len(os) : os[i].symbol = sym /\ is_long_leap_call(os[i], und[sym])
            /\ \E i \in 1..Len(os) : os[i].symbol = sym /\ is_short_near_call(os[i], und[sym])
    IN  {LET rows == RowsOf(os, sym)
             longs == SelectSeq(rows, LAMBDA r : is_long_leap_call(r, und[sym]))
             shorts == SelectSeq(rows, LAMBDA r : is_short_near_call(r, und[sym]))
             long_pick == SortedFirstReverse(longs, pmcc_long_key)
             short_pick == SortedFirst(shorts, pmcc_short_key)
         IN  Ticket("pmcc", sym, <<long_pick, short_pick>>, pmcc_recs(und[sym], short_pick)) :
            sym \in {x \in SymbolsOf(os) : has(x)}}

\* ---- verticals_monitor.py ----
\* width and net are floats.
NoSpread == [kind |-> "none", L |-> <<>>, S |-> <<>>, width |-> FZero, net |-> FZero]

classify_vertical(a, b) ==
    IF ~(a.symbol = b.symbol /\ a.exp = b.exp /\ a.cp = b.cp) THEN NoSpread
    ELSE IF a.qty = None \/ b.qty = None \/ a.qty * b.qty >= 0 THEN NoSpread
    ELSE LET long_leg == IF a.qty > 0 THEN a ELSE b
             short_leg == IF a.qty > 0 THEN b ELSE a
         IN  IF ~(long_leg.strike < short_leg.strike) THEN NoSpread
             ELSE [kind |-> IF a.cp = "P" THEN "bull_put" ELSE "bull_call",
                   L |-> long_leg, S |-> short_leg,
                   width |-> FAbs(FSub(FH(short_leg.strike), FH(long_leg.strike))),
                   net |-> IF a.cp = "P"
                           THEN FSub(FH(OrZero(short_leg.mark)), FH(OrZero(long_leg.mark)))
                           ELSE FSub(FH(OrZero(long_leg.mark)), FH(OrZero(short_leg.mark)))]

\* The score main() gives a spread: the sum, in floats, of the terms in the
\* order in which main() adds them.
spread_score(sp) ==
    LET s1 == IF sp.S.dte # None /\ sp.S.dte # 0 /\ sp.S.dte >= 21 THEN F1 ELSE FZero
        s2 == IF sp.S.delta # None
              THEN FAdd(s1, FSub(F1, FMinOf(F1, FAbs(FSub(FAbs(FH(sp.S.delta)), F040)))))
              ELSE s1
        s3 == IF /\ sp.kind = "bull_call" /\ ~FIsZero(sp.width)
                 /\ FLeq(FDiv(sp.net, sp.width), F070)
              THEN FAdd(s2, F05) ELSE s2
    IN  IF /\ sp.kind = "bull_put" /\ ~FIsZero(sp.width)
           /\ FLeq(F033, FDiv(sp.net, sp.width))
        THEN FAdd(s3, F05) ELSE s3

\* verticals_monitor.main: per (symbol, exp, type) bucket the first best-scoring
\* pair that classify_vertical accepts; render_spread prints no recommendation.
verticals_main(os) ==
    LET keys == {<<os[i].symbol, os[i].exp, os[i].cp>> : i \in 1..Len(os)}
        bucket(k) == SelectSeq(os, LAMBDA o : <<o.symbol, o.exp, o.cp>> = k)
        pairs(legs) == {p \in (1..Len(legs)) \X (1..Len(legs)) :
                           p[1] < p[2] /\ classify_vertical(legs[p[1]], legs[p[2]]).kind # "none"}
        scores(legs) == [p \in pairs(legs) |->
                            spread_score(classify_vertical(legs[p[1]], legs[p[2]]))]
        first_best(ps, score) ==
            CHOOSE p \in ps :
                \A q \in ps \ {p} :
                    \/ FLess(score[q], score[p])
                    \/ (score[q] = score[p] /\ ~LexLess(q, p))
        best(legs) == first_best(pairs(legs), scores(legs))
        spread(legs, pick) == classify_vertical(legs[pick[1]], legs[pick[2]])
        ticket(sym, sp) == Ticket(sp.kind, sym, <<sp.L, sp.S>>, {})
        pick_of(sym, legs) == ticket(sym, spread(legs, best(legs)))
    IN  {pick_of(k[1], bucket(k)) : k \in {x \in keys : pairs(bucket(x)) # {}}}

\* ---- Untitled-2.py: the policy-driven PMCC monitor ----
\* A dict is a function on its keys; deltas and the take-profit share are in
\* hundredths.  A policy holds the dict at defaults.targets.pmcc and, for each
\* (regime, volatility) it names, the dict at regimes.<regime>.vol.<vol>.adjust,
\* whose keys are dotted names split at the dot.
EmptyDict == [k \in {} |-> 0]
Adjust(section, key, value) == [k \in {<<section, key>>} |-> value]

PmccTargets(ldm, lmd, pref, band, tp, rad, rid) ==
    [leap_delta_min |-> ldm, leap_min_dte |-> lmd, short_dte_pref |-> pref,
     short_delta_band |-> band, short_take_profit |-> tp,
     roll_at_days_to_exp |-> rad, roll_if_short_delta_gt |-> rid]

DEFAULT_POLICY ==
    [pmcc |-> PmccTargets(65, 90, <<28, 45>>, <<15, 55>>, 50, 21, 55),
     regimes |->
        [rv \in {"bullish", "neutral", "bearish"} \X {"low", "medium", "high"} |->
            CASE rv = <<"bullish", "low">> -> Adjust("pmcc", "short_delta_band", <<20, 45>>)
              [] rv = <<"bullish", "medium">> -> Adjust("pmcc", "short_delta_band", <<20, 50>>)
              [] rv = <<"bullish", "high">> -> Adjust("pmcc", "short_delta_band", <<25, 55>>)
              [] rv = <<"neutral", "low">> -> Adjust("pmcc", "short_dte_pref", <<21, 35>>)
              [] rv = <<"bearish", "low">> -> Adjust("pmcc", "short_delta_band", <<15, 35>>)
              [] OTHER -> EmptyDict]]

\* A JSON file as load_json returns it: found is FALSE for None (no file, or
\* one that does not parse).
StrategyFile(found, pmcc, regimes) == [found |-> found, pmcc |-> pmcc, regimes |-> regimes]
MarketFile(found, regime, vol) == [found |-> found, regime |-> regime, vol |-> vol]

\* load_market_state: a missing file, a missing or empty regime and a missing
\* or empty volatility regime give neutral and medium.
load_market_state(js) ==
    IF ~js.found THEN [regime |-> "neutral", vol |-> "medium"]
    ELSE [regime |-> IF js.regime = "" THEN "neutral" ELSE js.regime,
          vol |-> IF js.vol = "" THEN "medium" ELSE js.vol]

\* load_strategy_policy: the policy file when there is one, else a copy of
\* DEFAULT_POLICY, with the source noted.
load_strategy_policy(file) ==
    IF ~file.found
    THEN [pmcc |-> DEFAULT_POLICY.pmcc, regimes |-> DEFAULT_POLICY.regimes,
          _policy_source |-> "default"]
    ELSE [pmcc |-> file.pmcc, regimes |-> file.regimes, _policy_source |-> "file"]

\* resolve_pmcc_targets: defaults.targets.pmcc, overridden by the "pmcc."
\* keys of the adjustment of the market's regime and volatility, then
\* completed by setdefault.
resolve_pmcc_targets(pol, ms) ==
    LET base == pol.pmcc
        sane == PmccTargets(65, 90, <<28, 45>>, <<15, 55>>, 50, 21, 55)
        adjust == IF <<ms.regime, ms.vol>> \in DOMAIN pol.regimes
                  THEN pol.regimes[<<ms.regime, ms.vol>>] ELSE EmptyDict
        set == {k[2] : k \in {x \in DOMAIN adjust : x[1] = "pmcc"}}
    IN  [k \in DOMAIN base \cup set \cup DOMAIN sane |->
            IF k \in set THEN adjust[<<"pmcc", k>>]
            ELSE IF k \in DOMAIN base THEN base[k] ELSE sane[k]]

u2_is_long_leap_call(o, last, targets) ==
    IF o.cp # "C" \/ o.qty = None \/ o.qty <= 0 \/ o.dte = None THEN FALSE
    ELSE /\ (o.itm_flag = "ITM") \/ (last # None /\ last > o.strike)
         /\ o.dte >= targets.leap_min_dte
         /\ (o.delta = None \/ o.delta >= targets.leap_delta_min)

u2_is_short_near_call(o, last, targets) ==
    IF o.cp # "C" \/ o.qty = None \/ o.qty >= 0 \/ o.dte = None THEN FALSE
    ELSE /\ (o.itm_flag = "OTM") \/ (last # None /\ last < o.strike)
         /\ 7 <= o.dte /\ o.dte <= 60
         /\ (o.delta = None
             \/ (targets.short_delta_band[1] <= Abs(o.delta)
                 /\ Abs(o.delta) <= targets.short_delta_band[2]))

\* The cycles counted as stand_alone/PMCC.py counts them.
cycles_left_whole_months(dte_long) ==
    IF dte_long = None THEN 0 ELSE Max(1, (dte_long \div 30) - 1)

cycles_left(dte_long) ==
    IF dte_long = None THEN 0 ELSE Max(0, (dte_long - 21) \div 30)

\* max(0.0, long.mark - max(0.0, last - long.strike)) as a float; None when
\* the mark or the underlying's price is unknown.
long_extrinsic(long, last) ==
    IF long.mark = None \/ last = None THEN FNone
    ELSE FMaxOf(FZero, FSub(FH(long.mark),
                            FMaxOf(FZero, FSub(FH(last), FH(long.strike)))))

\* coverage_ok returns (ok, req): req = extr / cyc and
\* ok = (short_mark or 0.0) >= 0.8 * req.
coverage_ok(extr, dte_long, short_mark) ==
    LET covers(req) == [ok |-> FLeq(FMul(F08, req), FH(OrZero(short_mark))), req |-> req]
    IN  IF extr = FNone \/ dte_long = None THEN [ok |-> FALSE, req |-> FNone]
        ELSE IF cycles_left(dte_long) = 0 THEN [ok |-> TRUE, req |-> FZero]
        ELSE covers(FDiv(extr, FInt(cycles_left(dte_long))))

\* sum(P["short_delta_band"]) / 2.0
delta_mid(band) == FDiv(FAdd(FH(band[1]), FH(band[2])), FInt(2))

\* key_short: the sweet spot is sum(P["short_dte_pref"]) / 2.0 days (36.5 by
\* default); the first side of the key is kept doubled.
u2_key_short(targets, r, i) ==
    IF i = 1
    THEN Abs(2 * OrZero(r.dte) - (targets.short_dte_pref[1] + targets.short_dte_pref[2]))
    ELSE DeltaDistance(r.delta, delta_mid(targets.short_delta_band))

\* The Recommendations block of Untitled-2.report.
u2_recs(targets, last, long, short) ==
    LET recs(extr, cov) ==
            (IF OrElse(short.dte, 999) <= targets.roll_at_days_to_exp THEN {"roll_dte"} ELSE {})
            \cup (IF short.delta # None /\ Abs(short.delta) > targets.roll_if_short_delta_gt
                  THEN {"roll_delta"} ELSE {})
            \cup (IF ~cov.ok /\ cov.req # FNone THEN {"coverage"} ELSE {})
            \cup (IF extr # FNone /\ FLeq(extr, F05)
                      /\ OrZero(long.dte) >= targets.leap_min_dte
                  THEN {"extrinsic_spent"} ELSE {})
        covered(extr) == recs(extr, coverage_ok(extr, long.dte, short.mark))
        or_hold(rs) == IF rs = {} THEN {"hold"} ELSE rs
    IN  or_hold(covered(long_extrinsic(long, last)))

u2_main(targets, und, os) ==
    LET has(sym) ==
            /\ \E i \in 1..Len(os) :
                  os[i].symbol = sym /\ u2_is_long_leap_call(os[i], und[sym], targets)
            /\ \E i \in 1..Len(os) :
                  os[i].symbol = sym /\ u2_is_short_near_call(os[i], und[sym], targets)
        key_short(r, i) == u2_key_short(targets, r, i)
    IN  {LET rows == RowsOf(os, sym)
             longs == SelectSeq(rows, LAMBDA r : u2_is_long_leap_call(r, und[sym], targets))
             shorts == SelectSeq(rows, LAMBDA r : u2_is_short_near_call(r, und[sym], targets))
             long_pick == SortedFirstReverse(longs, pmcc_long_key)
             short_pick == SortedFirst(shorts, key_short)
         IN  Ticket("pmcc", sym, <<long_pick, short_pick>>,
                    u2_recs(targets, und[sym], long_pick, short_pick)) :
            sym \in {x \in SymbolsOf(os) : has(x)}}

(***************************************************************************)
(* Pasted texts                                                             *)
(***************************************************************************)

\* Bounds of the pasted texts.
MaxPre == 3
MaxLines == 4

Scripts ==
    {"pmcc_monitor", "csp_monitor", "covered_call_monitor", "verticals_monitor", "Untitled-2"}

\* The underlying trades at $230.49.
LastPrice == 230 * 100 + 49
QuoteLines == <<TickerLine("AAPL"), RowLine(<<Money(LastPrice)>>)>>

\* Columns a broker screen may show before the ITM/OTM column.
PreExtras == {Money(100), BadMoney, IntTok(12), Word, WFlag("OTM")}
PreSeqs ==
    {<<Money(4530)>> \o x : x \in UNION {[1..n -> PreExtras] : n \in 0..(MaxPre - 1)}}

\* The columns after the ITM/OTM column: dte, delta, open interest, quantity
\* and, on some screens, one more.
QtyToks == {IntTok(1), IntTok(0 - 1), IntTok(0), IntTok(2), IntTok(0 - 2), Word, NoTok}
FifthToks == {NoTok, IntTok(0 - 1), IntTok(7)}
PostOf(dte, delta, qty, fifth) ==
    <<dte, delta, IntTok(5200)>>
    \o (IF qty = NoTok THEN <<>> ELSE <<qty>> \o (IF fifth = NoTok THEN <<>> ELSE <<fifth>>))
PostSeqs ==
    {PostOf(dte, DecTok(30), qty, fifth) :
        dte \in {IntTok(30), Word}, qty \in QtyToks, fifth \in FifthToks}

\* One header and its data row, after an optional quote of the underlying.
OneLegTexts ==
    {q \o <<HeaderLine("AAPL", "12/19/2025", 25000, cp), RowLine(pre \o <<Flag("OTM")>> \o post)>> :
        q \in {<<>>, QuoteLines}, cp \in {"C", "P"},
        pre \in {<<Money(4530)>>}, post \in PostSeqs}

PermuteTexts ==
    {<<HeaderLine("AAPL", "12/19/2025", 25000, cp), RowLine(pre \o <<Flag(f)>> \o post)>> :
        cp \in {"C", "P"}, pre \in PreSeqs, f \in {"ITM", "OTM"},
        post \in {PostOf(IntTok(30), DecTok(30), IntTok(0 - 1), NoTok),
                  PostOf(IntTok(320), DecTok(82), IntTok(1), NoTok)}}

\* Two legs on one symbol, as the broker shows them.
Expiries == {"11/21/2025", "12/19/2025", "01/16/2026"}
DteOf(exp) ==
    CASE exp = "11/21/2025" -> 15
      [] exp = "12/19/2025" -> 43
      [] OTHER -> 320
LegStrikes == {19000, 25000}
LegQtys == {1, 0 - 1, 0 - 2}
IsItm(strike, cp) == IF cp = "C" THEN strike < LastPrice ELSE strike > LastPrice
LegDeltas(strike, cp) == IF IsItm(strike, cp) THEN {82} ELSE {30, 55, 60}
LegLines(exp, strike, cp, delta, qty) ==
    <<HeaderLine("AAPL", exp, strike, cp),
      RowLine(<<Money(IF IsItm(strike, cp) THEN 4530 ELSE 310),
                Flag(IF IsItm(strike, cp) THEN "ITM" ELSE "OTM"),
                IntTok(DteOf(exp)),
                DecTok(IF cp = "P" THEN 0 - delta ELSE delta),
                IntTok(5200), IntTok(qty)>>)>>
Legs ==
    UNION {{LegLines(exp, strike, cp, delta, qty) : delta \in LegDeltas(strike, cp)} :
              exp \in Expiries, strike \in LegStrikes, cp \in {"C", "P"}, qty \in LegQtys}
TwoLegTexts == {QuoteLines \o a \o b : a \in Legs, b \in Legs}

\* Short runs of lines around a bare ticker.
Alphabet ==
    {TickerLine("AAPL"), RowLine(<<Money(LastPrice)>>), RowLine(<<BadMoney>>),
     HeaderLine("AAPL", "01/16/2026", 19000, "C"),
     RowLine(<<Money(4530), Flag("ITM"), IntTok(320), DecTok(82), IntTok(5200), IntTok(1)>>),
     TextLine, LabelLine}
LineTexts == UNION {[1..n -> Alphabet] : n \in 0..MaxLines}

\* Two short legs at one strike that are equally far from the monitors' dte
\* targets (35 days, and 36.5 days for covered calls), with one delta.
TieLeg(exp, dte, cp) ==
    <<HeaderLine("AAPL", exp, IF cp = "C" THEN 25000 ELSE 19000, cp),
      RowLine(<<Money(310), Flag("OTM"), IntTok(dte),
                DecTok(IF cp = "P" THEN 0 - 30 ELSE 30), IntTok(5200), IntTok(0 - 1)>>)>>
TieTexts ==
    UNION {{QuoteLines \o TieLeg(near[1], near[2], cp) \o TieLeg("12/19/2025", 43, cp),
            QuoteLines \o TieLeg("12/19/2025", 43, cp) \o TieLeg(near[1], near[2], cp)} :
              near \in {<<"12/03/2025", 27>>, <<"12/06/2025", 30>>}, cp \in {"C", "P"}}

\* One leg of quantity +1 or -1 whose dte, delta or open interest column may
\* hold a word or a dash placeholder instead of a number, or whose delta
\* column holds "1.50" or "45".
FieldRow(dte, delta, oi, qty) ==
    RowLine(<<Money(310), Flag("OTM"), dte, delta, oi, IntTok(qty)>>)
BadFieldTexts ==
    {<<HeaderLine("AAPL", "12/19/2025", IF cp = "C" THEN 25000 ELSE 19000, cp),
       FieldRow(f[1], f[2], f[3], qty)>> :
        f \in {<<Word, DecTok(30), IntTok(5200)>>, <<IntTok(43), Word, IntTok(5200)>>,
               <<IntTok(43), DecTok(30), Word>>, <<IntTok(43), DecTok(0 - 30), IntTok(5200)>>,
               <<Dashes, DecTok(30), IntTok(5200)>>, <<IntTok(43), Dashes, IntTok(5200)>>,
               <<IntTok(43), DecTok(30), Dashes>>, <<IntTok(43), Dash, IntTok(5200)>>,
               <<IntTok(43), DecTok(150), IntTok(5200)>>, <<IntTok(43), IntTok(45), IntTok(5200)>>},
        qty \in {1, 0 - 1}, cp \in {"C", "P"}}

\* A long leg at the lower strike and a short leg at the higher strike of one
\* expiry; the price column of either may hold "$--" instead of an amount.
MarkLeg(strike, cp, m, qty) ==
    <<HeaderLine("AAPL", "12/19/2025", strike, cp),
      RowLine(<<m, Flag(IF IsItm(strike, cp) THEN "ITM" ELSE "OTM"), IntTok(43),
                DecTok(IF cp = "P" THEN 0 - 30 ELSE 30), IntTok(5200), IntTok(qty)>>)>>
MarkTexts ==
    {QuoteLines \o MarkLeg(19000, cp, ml, 1) \o MarkLeg(25000, cp, ms, 0 - 1) :
        cp \in {"C", "P"}, ml \in {Money(4530), BadMoney}, ms \in {Money(310), BadMoney}}

\* The underlying quoted twice, at one price or at two, before an optional
\* short call.
OtherPrice == 240 * 100
QuoteTwiceTexts ==
    {<<TickerLine("AAPL"), RowLine(<<Money(p1)>>), TickerLine("AAPL"), RowLine(<<Money(p2)>>)>>
     \o leg :
        p1 \in {LastPrice, OtherPrice}, p2 \in {LastPrice, OtherPrice},
        leg \in {<<>>, TieLeg("12/19/2025", 43, "C")}}

\* Two headers, each followed by nothing, by its data row, or by other lines
\* and its data row.
LeapHeader == HeaderLine("AAPL", "01/16/2026", 19000, "C")
LeapRow ==
    RowLine(<<Money(4530), Flag("ITM"), IntTok(320), DecTok(82), IntTok(5200), IntTok(1)>>)
ShortHeader == HeaderLine("AAPL", "12/19/2025", 25000, "C")
ShortRow ==
    RowLine(<<Money(310), Flag("OTM"), IntTok(43), DecTok(30), IntTok(5200), IntTok(0 - 1)>>)
Between(row) == {<<>>, <<TextLine>>, <<row>>, <<LabelLine, row>>, <<TextLine, row>>}
HeaderPairTexts ==
    {QuoteLines \o <<LeapHeader>> \o x \o <<ShortHeader>> \o y :
        x \in Between(LeapRow), y \in Between(ShortRow)}

\* A header whose data row comes after a run of other lines, around the
\* length of the scan window, before a second leg.
RECURSIVE Filler(_, _)
Filler(l, n) == IF n = 0 THEN <<>> ELSE <<l>> \o Filler(l, n - 1)
GapTexts ==
    {<<LeapHeader>> \o Filler(l, n) \o <<LeapRow, ShortHeader, ShortRow>> :
        l \in {TextLine, LabelLine}, n \in (ScanWindow - 2)..(ScanWindow + 1)}

\* One or two long calls far out and two short calls at different near
\* expiries, all of one symbol.
FarLeg(exp, dte, delta) ==
    <<HeaderLine("AAPL", exp, 19000, "C"),
      RowLine(<<Money(4530), Flag("ITM"), IntTok(dte), DecTok(delta), IntTok(5200),
                IntTok(1)>>)>>
FarLegs ==
    {FarLeg("01/16/2026", 320, 82) \o FarLeg("01/15/2027", 435, 70),
     FarLeg("01/15/2027", 435, 70) \o FarLeg("01/16/2026", 320, 82),
     FarLeg("01/16/2026", 320, 82)}
NearExpiries == {<<"12/08/2025", 32>>, <<"12/16/2025", 40>>, <<"12/19/2025", 43>>}
LadderTexts ==
    {QuoteLines \o far \o TieLeg(p[1][1], p[1][2], "C") \o TieLeg(p[2][1], p[2][2], "C") :
        far \in FarLegs, p \in {q \in NearExpiries \X NearExpiries : q[1] # q[2]}}

\* A line holding nothing but ITM or OTM between a ticker and its price, and
\* a short call whose row holds "$--" or a negative amount after the marker.
StrayTexts ==
    {<<TickerLine("AAPL"), RowLine(<<Flag(f)>>), RowLine(<<Money(LastPrice)>>)>> \o leg :
        f \in {"ITM", "OTM"}, leg \in {<<>>, TieLeg("12/19/2025", 43, "C")}}
    \cup {QuoteLines \o <<ShortHeader,
                           RowLine(<<Money(310), Flag("OTM"), m, IntTok(43), DecTok(30),
                                     IntTok(5200), IntTok(0 - 1)>>)>> :
              m \in {BadMoney, Money(0 - 150)}}

\* One leg as the broker shows it.
QuotedLeg(exp, strike, cp, mark, dte, delta, qty) ==
    <<HeaderLine("AAPL", exp, strike, cp),
      RowLine(<<Money(mark), Flag(IF IsItm(strike, cp) THEN "ITM" ELSE "OTM"), IntTok(dte),
                DecTok(IF cp = "P" THEN 0 - delta ELSE delta), IntTok(5200), IntTok(qty)>>)>>

\* Two short legs of one expiry whose deltas lie on either side of a
\* monitor's delta target (0.25, 0.33, 0.35), in both orders, with or
\* without a long call far out.
DeltaPairs == {<<15, 35>>, <<30, 36>>, <<30, 40>>}
DeltaTieTexts ==
    {QuoteLines \o far
     \o QuotedLeg("12/19/2025", IF cp = "C" THEN 25000 ELSE 19000, cp, 310, 43, d[i], 0 - 1)
     \o QuotedLeg("12/19/2025", IF cp = "C" THEN 25000 ELSE 19000, cp, 310, 43, d[3 - i], 0 - 1) :
        far \in {<<>>, FarLeg("01/16/2026", 320, 82)}, cp \in {"C", "P"},
        d \in DeltaPairs, i \in 1..2}

\* A long leg and two short legs of one expiry and type: two spreads whose
\* net price is at, or a cent from, 70% (calls) or 33% (puts) of the width,
\* the short deltas on either side of 0.40.
SpreadMarks(cp) ==
    IF cp = "C" THEN {<<240, 241>>, <<241, 240>>, <<240, 240>>}
    ELSE {<<343, 342>>, <<342, 343>>, <<343, 343>>}
SpreadTexts ==
    UNION {{QuotedLeg("12/19/2025", 24900, cp, 310, dte, 45, 1)
            \o QuotedLeg("12/19/2025", 25000, cp, m[1], dte, d[1], 0 - 1)
            \o QuotedLeg("12/19/2025", 25000, cp, m[2], dte, d[2], 0 - 1) :
               d \in {<<30, 50>>, <<50, 30>>, <<40, 40>>}, m \in SpreadMarks(cp),
               dte \in {20, 43}} :
              cp \in {"C", "P"}}

\* A long call whose extrinsic value is $0.50 or whose required credit per
\* cycle is 80% of the short call's price, under a quote of $190.10 or $240.00.
ExtrinsicTexts ==
    {<<TickerLine("AAPL"), RowLine(<<Money(19010)>>)>>
     \o QuotedLeg("01/16/2026", 19000, "C", m, 320, 82, 1)
     \o QuotedLeg("12/19/2025", 25000, "C", 310, 43, 30, 0 - 1) : m \in {59, 60, 61}}
    \cup {<<TickerLine("AAPL"), RowLine(<<Money(OtherPrice)>>)>>
          \o QuotedLeg("01/16/2026", 19000, "C", 5045, 320, 82, 1)
          \o QuotedLeg("12/19/2025", 25000, "C", m, 43, 30, 0 - 1) : m \in {3, 4, 5}}

Texts ==
    OneLegTexts \cup PermuteTexts \cup TwoLegTexts \cup LineTexts \cup TieTexts
    \cup BadFieldTexts \cup MarkTexts \cup QuoteTwiceTexts \cup HeaderPairTexts
    \cup GapTexts \cup LadderTexts \cup StrayTexts \cup DeltaTieTexts
    \cup SpreadTexts \cup ExtrinsicTexts

\* The number of tokens before the ITM/OTM marker of a row.
PreLen(toks) ==
    IF \E i \in 1..Len(toks) : toks[i].k = "flag"
    THEN (CHOOSE i \in 1..Len(toks) :
              toks[i].k = "flag" /\ \A j \in 1..(i - 1) : toks[j].k # "flag") - 1
    ELSE 0

PermuteRow(toks, p) ==
    [i \in 1..Len(toks) |-> IF i <= PreLen(toks) THEN toks[p[i]] ELSE toks[i]]

\* The texts that differ from t only in the order of the tokens before the
\* marker of its last line.
Variants(t) ==
    IF t \in PermuteTexts
    THEN {[t EXCEPT ![Len(t)] = RowLine(PermuteRow(t[Len(t)].toks, p))] :
             p \in Permutations(1..PreLen(t[Len(t)].toks))}
    ELSE {t}

(***************************************************************************)
(* Command-line arguments, GTC tiers, messages and key metrics              *)
(***************************************************************************)

\* One --fill item: SYMBOL=PRICE (price in cents), or a bare word without '='.
FillItem(sym, eq, price) == [sym |-> sym, eq |-> eq, price |-> price]

\* The arguments of a run: the --fill items in order and the percents of the
\* --gtc list; <<>> stands for an option that is not given.
Argv(fill, gtc) == [fill |-> fill, gtc |-> gtc]
Argvs ==
    {Argv(f, g) :
        f \in {<<>>, <<FillItem("AAPL", TRUE, 250)>>, <<FillItem("AAPL", FALSE, 0)>>},
        g \in {<<>>, <<25, 60>>, <<50, 150>>}}

\* The fills dict of main() / parse_fill_map: only items holding '=' enter it.
parse_fill_map(fill) == SelectSeq(fill, LAMBDA item : item.eq)

\* The tiers block of pmcc_monitor, csp_monitor and verticals_monitor main().
main_tiers(a) ==
    IF a.gtc # <<>> THEN a.gtc
    ELSE IF parse_fill_map(a.fill) # <<>> THEN <<50, 75>> ELSE <<50>>

\* covered_call_monitor: None (here <<>>) when --gtc is not given; report()
\* then has no tiers and prints no GTC line.
parse_gtc_list(g) == SelectSeq(g, LAMBDA v : ~(v <= 0 \/ v >= 100))

pmcc_tiers(a) == main_tiers(a)
\* csp_monitor and verticals_monitor return before the tiers block when no
\* short put, respectively no leg, was found.
csp_tiers(a, ts) == IF ts = {} THEN <<>> ELSE main_tiers(a)
verticals_tiers(a, os) == IF os = <<>> THEN <<>> ELSE main_tiers(a)
cc_tiers(a) == parse_gtc_list(a.gtc)

\* Untitled-2 takes no arguments: one take-profit tier from the policy.
u2_tiers(targets) == <<targets.short_take_profit>>

\* The files Untitled-2 finds at configs/strategy_policy.* and at
\* outputs/market_state.json.
NoStrategyFile == StrategyFile(FALSE, EmptyDict, EmptyDict)
EmptyStrategyFile == StrategyFile(TRUE, EmptyDict, EmptyDict)
CustomStrategyFile ==
    StrategyFile(TRUE,
               [leap_delta_min |-> 75, short_dte_pref |-> <<30, 40>>, short_take_profit |-> 40],
               [rv \in {<<"bearish", "low">>, <<"neutral", "medium">>} |->
                   IF rv = <<"bearish", "low">>
                   THEN [k \in {<<"pmcc", "roll_at_days_to_exp">>, <<"csp", "roll_at_days_to_exp">>} |->
                            IF k[1] = "pmcc" THEN 30 ELSE 14]
                   ELSE EmptyDict])
StrategyFiles == {NoStrategyFile, EmptyStrategyFile, CustomStrategyFile}

NoMarketFile == MarketFile(FALSE, "", "")
MarketFiles ==
    {NoMarketFile}
    \cup {MarketFile(TRUE, rv[1], rv[2]) :
              rv \in {<<"bullish", "low">>, <<"bullish", "medium">>, <<"bullish", "high">>,
                      <<"neutral", "low">>, <<"bearish", "low">>, <<"bullish", "">>,
                      <<"", "low">>, <<"sideways", "low">>}}

NoMarketState == [regime |-> "", vol |-> ""]

\* The message main() prints when it renders no ticket ("" when it renders one).
pmcc_notice(ls, os, ts) == IF ts = {} THEN "No PMCC pairs detected" ELSE ""
csp_notice(ls, os, ts) == IF ts = {} THEN "No CSP rows detected" ELSE ""
cc_notice(ls, os, ts) ==
    IF ls = <<>> THEN "No input detected"
    ELSE IF ts = {} THEN "No covered call row detected" ELSE ""
verticals_notice(ls, os, ts) ==
    IF os = <<>> THEN "No option legs detected"
    ELSE IF ts = {} THEN "No valid bull call / bull put verticals detected" ELSE ""
u2_notice(ls, os, ts) == IF ts = {} THEN "No PMCC pairs detected" ELSE ""

\* Key metrics of a ticket, in cents (pop in percent); None prints as N/A.
Metrics(t, net, breakeven, extrinsic, pop) ==
    [ticket |-> t, net |-> net, breakeven |-> breakeven, extrinsic |-> extrinsic,
     pop |-> pop]

breakeven_from_ask(strike, ask) ==
    IF strike = None \/ ask = None THEN None ELSE strike - ask

\* covered_call_monitor.pop_proxy_from_delta: max(0.0, 1 - |delta|), in percent.
pop_proxy_from_delta(delta) ==
    IF delta = None THEN None ELSE Max(0, 100 - Abs(delta))

\* csp_monitor.pop_proxy_from_delta: (1.0 - delta_abs) * 100.0 with no floor,
\* in percent as fmt_pct_raw prints it; negative when |delta| exceeds 1.
csp_pop_proxy_from_delta(delta_abs) ==
    IF delta_abs = None THEN None
    ELSE RoundTo(FMul(FSub(F1, FH(delta_abs)), FInt(100)), 1)

extrinsic_of_call(mark, last, strike) ==
    IF mark = None \/ last = None \/ strike = None THEN None
    ELSE Max(0, mark - Max(0, last - strike))

pmcc_metrics(und, t) ==
    Metrics(t, None, None, Cents(long_extrinsic(t.legs[1], und[t.symbol])), None)

csp_metrics(und, t) ==
    Metrics(t, None, breakeven_from_ask(t.legs[1].strike, t.legs[1].mark), None,
            csp_pop_proxy_from_delta(IF t.legs[1].delta = None THEN None
                                     ELSE Abs(t.legs[1].delta)))

cc_metrics(und, t) ==
    Metrics(t, None, None,
            extrinsic_of_call(t.legs[1].mark, und[t.symbol], t.legs[1].strike),
            pop_proxy_from_delta(t.legs[1].delta))

\* render_spread: the net credit or debit is the one classify_vertical
\* computed; the breakeven is the short strike less the credit, or the long
\* strike plus the debit.
verticals_metrics(und, t) ==
    LET priced(net) ==
            Metrics(t, Cents(net),
                    IF t.kind = "bull_put" THEN Cents(FSub(FH(t.legs[2].strike), net))
                    ELSE Cents(FAdd(FH(t.legs[1].strike), net)),
                    None, None)
    IN  priced(classify_vertical(t.legs[1], t.legs[2]).net)

u2_metrics(und, t) ==
    Metrics(t, None, None, Cents(long_extrinsic(t.legs[1], und[t.symbol])), None)

(***************************************************************************)
(* The monitors' main(): detect, parse, pick, report                        *)
(***************************************************************************)

MonitorInit ==
    /\ script \in Scripts
    /\ lines \in Texts
    /\ alt \in Variants(lines)
    /\ pc = "start"
    /\ under = NoUnder
    /\ opts = <<>>
    /\ optsAlt = <<>>
    /\ tickets = {}
    /\ argv = <<>>
    /\ tiers = <<>>
    /\ notice = ""
    /\ metrics = {}
    /\ market_state = NoMarketState
    /\ policy_src = ""
    /\ P = EmptyDict
    /\ IdleSizer
    /\ IdlePortfolio
    /\ IdleCalc
    /\ IdlePolicy

DetectUnderlyings ==
    /\ pc = "start"
    /\ under' = detect_underlyings(lines)
    /\ pc' = "detected"
    /\ UNCHANGED <<script, lines, alt, opts, optsAlt, tickets, argv, tiers, notice, metrics,
                   market_state, policy_src, P, sizerVars, portfolioVars, calcVars, policyVars>>

ParseOptions ==
    /\ pc = "detected"
    /\ opts' = parse_options(script, lines)
    /\ optsAlt' = parse_options(script, alt)
    /\ pc' = "parsed"
    /\ UNCHANGED <<script, lines, alt, under, tickets, argv, tiers, notice, metrics,
                   market_state, policy_src, P, sizerVars, portfolioVars, calcVars, policyVars>>

PmccMain ==
    /\ pc = "parsed" /\ script = "pmcc_monitor"
    /\ \E ts \in {pmcc_main(under, opts)} :
           /\ \E a \in Argvs :
                 /\ argv' = a
                 /\ tiers' = pmcc_tiers(a)
           /\ tickets' = ts
           /\ notice' = pmcc_notice(lines, opts, ts)
           /\ metrics' = {pmcc_metrics(under, t) : t \in ts}
    /\ pc' = "done"
    /\ UNCHANGED <<script, lines, alt, under, opts, optsAlt, market_state, policy_src, P,
                   sizerVars, portfolioVars, calcVars, policyVars>>

CspMain ==
    /\ pc = "parsed" /\ script = "csp_monitor"
    /\ \E ts \in {csp_main(under, opts)} :
           /\ \E a \in Argvs :
                 /\ argv' = a
                 /\ tiers' = csp_tiers(a, ts)
           /\ tickets' = ts
           /\ notice' = csp_notice(lines, opts, ts)
           /\ metrics' = {csp_metrics(under, t) : t \in ts}
    /\ pc' = "done"
    /\ UNCHANGED <<script, lines, alt, under, opts, optsAlt, market_state, policy_src, P,
                   sizerVars, portfolioVars, calcVars, policyVars>>

CoveredCallMain ==
    /\ pc = "parsed" /\ script = "covered_call_monitor"
    /\ \E ts \in {cc_main(under, opts)} :
           /\ \E a \in Argvs :
                 /\ argv' = a
                 /\ tiers' = cc_tiers(a)
           /\ tickets' = ts
           /\ notice' = cc_notice(lines, opts, ts)
           /\ metrics' = {cc_metrics(under, t) : t \in ts}
    /\ pc' = "done"
    /\ UNCHANGED <<script, lines, alt, under, opts, optsAlt, market_state, policy_src, P,
                   sizerVars, portfolioVars, calcVars, policyVars>>

VerticalsMain ==
    /\ pc = "parsed" /\ script = "verticals_monitor"
    /\ \E ts \in {verticals_main(opts)} :
           /\ \E a \in Argvs :
                 /\ argv' = a
                 /\ tiers' = verticals_tiers(a, opts)
           /\ tickets' = ts
           /\ notice' = verticals_notice(lines, opts, ts)
           /\ metrics' = {verticals_metrics(under, t) : t \in ts}
    /\ pc' = "done"
    /\ UNCHANGED <<script, lines, alt, under, opts, optsAlt, market_state, policy_src, P,
                   sizerVars, portfolioVars, calcVars, policyVars>>

UntitledMain ==
    /\ pc = "parsed" /\ script = "Untitled-2"
    /\ \E file \in StrategyFiles, js \in MarketFiles :
         \E pol \in {load_strategy_policy(file)}, ms \in {load_market_state(js)} :
           \E targets \in {resolve_pmcc_targets(pol, ms)} :
             \E ts \in {u2_main(targets, under, opts)} :
                /\ market_state' = ms
                /\ policy_src' = pol._policy_source
                /\ P' = targets
                /\ tiers' = u2_tiers(targets)
                /\ tickets' = ts
                /\ notice' = u2_notice(lines, opts, ts)
                /\ metrics' = {u2_metrics(under, t) : t \in ts}
    /\ pc' = "done"
    /\ UNCHANGED <<script, lines, alt, under, opts, optsAlt, argv, sizerVars, portfolioVars,
                   calcVars, policyVars>>

MonitorNext ==
    \/ DetectUnderlyings
    \/ ParseOptions
    \/ PmccMain
    \/ CspMain
    \/ CoveredCallMain
    \/ VerticalsMain
    \/ UntitledMain

SpecMonitor == MonitorInit /\ [][MonitorNext]_vars

(***************************************************************************)
(* Pasted positions: monitor_portfolio.py and monitor_card.py               *)
(***************************************************************************)

\* A date as a line writes it: "2027-01-29" (iso), "1/29/2027" (mdy),
\* "01/29/2027" (mdy0) or "1/29/27" (mdy2).  y is the year as written.
DateText(style, y, m, d) == [style |-> style, y |-> y, m |-> m, d |-> d]
NoDate == DateText("", 0, 0, 0)

\* A pasted line under the ticker line of a block: a leg
\*   "<sg> AAPL <exp> <strike> <cp> <mon>"   (sg is "+1", "-1", "1", "-2" or nothing)
\* or a line holding nothing but a quantity.  exp is the date as written.
PLine(k, sg, exp, strike, cp, mon) ==
    [k |-> k, sg |-> sg, exp |-> exp, strike |-> strike, cp |-> cp, mon |-> mon]
LegLine(sg, exp, strike, cp, mon) == PLine("leg", sg, exp, strike, cp, mon)
QtyLine(sg) == PLine("qty", sg, NoDate, 0, "", "")

\* _norm_date: the ISO date <<year, month, day>> of a written date; a year
\* not written with four digits is read as "20" and its last two digits.
_norm_date(dt) ==
    IF dt.style = "mdy2" THEN <<2000 + (dt.y % 100), dt.m, dt.d>> ELSE <<dt.y, dt.m, dt.d>>

\* (dt.date(y, m, d) - today).days, by the dates' ordinals.
IsLeap(y) == y % 4 = 0 /\ (y % 100 # 0 \/ y % 400 = 0)
DaysBeforeMonth == <<0, 31, 59, 90, 120, 151, 181, 212, 243, 273, 304, 334>>
toordinal(iso) ==
    (iso[1] - 1) * 365 + (iso[1] - 1) \div 4 - (iso[1] - 1) \div 100 + (iso[1] - 1) \div 400
        + DaysBeforeMonth[iso[2]] + (IF iso[2] > 2 /\ IsLeap(iso[1]) THEN 1 ELSE 0) + iso[3]
DaysTo(exp, day) == toordinal(exp) - toordinal(day)

Leg(type, side, strike, exp, mon) ==
    [type |-> type, side |-> side, strike |-> strike, exp |-> exp, moneyness |-> mon]

Position(shares, legs, strategy) == [shares |-> shares, legs |-> legs, strategy |-> strategy]
NoPos == Position(0, <<>>, "unparsed")
NoVerdict == [action |-> "none"]

TypeOf(cp) == IF cp = "C" THEN "call" ELSE "put"
Sel(legs, type, side) == SelectSeq(legs, LAMBDA l : l.type = type /\ l.side = side)
ExpsOf(legs) == {legs[i].exp : i \in 1..Len(legs)}

RECURSIVE MinOf(_)
MinOf(S) == LET x == CHOOSE x \in S : TRUE
            IN  IF S = {x} THEN x ELSE Min(x, MinOf(S \ {x}))

\* ---- monitor_portfolio.py ----
\* The side of a leg: "short" if the text before it on its line holds a "-",
\* "long" if it holds a "+", and "short" when it holds neither.
pp_side(sg) ==
    IF sg \in {"-1", "-2"} THEN "short" ELSE IF sg = "+1" THEN "long" ELSE "short"

RECURSIVE pp_legs(_, _)
pp_legs(rows, i) ==
    IF i > Len(rows) THEN <<>>
    ELSE (IF rows[i].k = "leg"
          THEN <<Leg(TypeOf(rows[i].cp), pp_side(rows[i].sg), rows[i].strike,
                     _norm_date(rows[i].exp), "")>>
          ELSE <<>>) \o pp_legs(rows, i + 1)

\* The strategies the classification chain can give.  list(exps_l)[0] and
\* list(exps_s)[0] are the first elements of two sets in hash order, which
\* changes from run to run: any element of either set may come first.
pp_strategies(shares, legs) ==
    LET sc == Sel(legs, "call", "short")
        sp == Sel(legs, "put", "short")
        lc == Sel(legs, "call", "long")
        lp == Sel(legs, "put", "long")
        Has(x) == x # <<>>
    IN  IF shares > 0 /\ Has(sc) THEN {"covered_call"}
        ELSE IF shares = 0 /\ Has(sp) /\ ~(Has(lc) \/ Has(lp) \/ Has(sc)) THEN {"csp"}
        ELSE IF Has(lc) /\ Has(sc)
             THEN {IF a # b THEN "pmcc" ELSE "diagonal" : a \in ExpsOf(lc), b \in ExpsOf(sc)}
        ELSE IF Has(lc) /\ Has(lp) /\ Has(sc) /\ Has(sp) THEN {"iron_condor"}
        ELSE IF (Has(lc) /\ Has(sc)) \/ (Has(lp) /\ Has(sp)) THEN {"vertical"}
        ELSE IF Has(lc) /\ ~(Has(sc) \/ Has(lp) \/ Has(sp)) THEN {"long_call"}
        ELSE {"unknown"}

parse_positions_text(b) ==
    {Position(b.shares, pp_legs(b.rows, 1), st) :
        st \in pp_strategies(b.shares, pp_legs(b.rows, 1))}

_min_dte(legs, day) ==
    IF legs = <<>> THEN 999 ELSE MinOf({DaysTo(legs[i].exp, day) : i \in 1..Len(legs)})

evaluate_position(p, day) ==
    LET dte == _min_dte(p.legs, day)
        strat == p.strategy
    IN  IF strat = "covered_call"
        THEN IF dte <= 21 THEN "roll"
             ELSE IF Sel(p.legs, "call", "short") # <<>> THEN "roll" ELSE "hold"
        ELSE IF strat \in {"csp", "pmcc", "diagonal"}
        THEN IF dte <= 21 THEN "roll" ELSE "hold"
        ELSE IF strat \in {"vertical", "iron_condor", "long_call"}
        THEN IF dte <= 21 THEN "close" ELSE "hold"
        ELSE "hold"

\* ---- monitor_card.py ----
\* A date written month/day/year without padding holds an isolated 1 when its
\* month or its day is 1 ("1/29/2027", "11/1/2026"); "01", "11", "2027" and
\* an ISO date hold none.
IsolatedOne(dt) == dt.style \in {"mdy", "mdy2"} /\ (dt.m = 1 \/ dt.d = 1)

\* QTY_RE.search finds the first isolated -1, +1 or 1 of the whole line: the
\* quantity the line begins with, else a 1 of the date (the ticker and the
\* strikes 190 and 250 hold none).
qty_token(ln) ==
    IF ln.sg = "-1" THEN 0 - 1
    ELSE IF ln.sg \in {"+1", "1"} THEN 1
    ELSE IF IsolatedOne(ln.exp) THEN 1 ELSE None

infer_side_from_line(ln) ==
    IF qty_token(ln) = None THEN "none"
    ELSE IF qty_token(ln) < 0 THEN "short" ELSE "long"

\* The first loop of parse_position_group: one leg per new (exp, strike, type),
\* with the side its own line shows and the index of that line.
RECURSIVE card_legs(_, _, _)
card_legs(rows, i, seen) ==
    IF i > Len(rows) THEN <<>>
    ELSE LET r == rows[i]
             key == <<_norm_date(r.exp), r.strike, r.cp>>
         IN  IF r.k = "leg" /\ key \notin seen
             THEN <<[leg |-> Leg(TypeOf(r.cp), infer_side_from_line(r), r.strike,
                                 _norm_date(r.exp), r.mon),
                     line |-> i]>>
                  \o card_legs(rows, i + 1, seen \cup {key})
             ELSE card_legs(rows, i + 1, seen)

\* The fallback of parse_position_group for a leg with no side: the quantity
\* on its own line, the line before or the line after, else long when the
\* leg is at least 120 days out and short otherwise.  The block's first line
\* is its ticker, which holds no quantity.
fallback_side(rows, i, exp, day) ==
    LET q(j) == IF j \in 1..Len(rows) THEN qty_token(rows[j]) ELSE None
        first == IF q(i) # None THEN q(i) ELSE IF q(i - 1) # None THEN q(i - 1) ELSE q(i + 1)
    IN  IF first # None THEN (IF first < 0 THEN "short" ELSE "long")
        ELSE IF DaysTo(exp, day) >= 120 THEN "long" ELSE "short"

normalize_vertical_sides(legs) ==
    IF Len(legs) # 2 THEN legs
    ELSE LET a == legs[1]
             b == legs[2]
         IN  IF a.type # b.type \/ a.exp # b.exp THEN legs
             ELSE IF a.side # b.side THEN legs
             ELSE IF (a.type = "call" /\ a.strike <= b.strike)
                     \/ (a.type # "call" /\ a.strike >= b.strike)
                  THEN <<[a EXCEPT !.side = "long"], [b EXCEPT !.side = "short"]>>
                  ELSE <<[a EXCEPT !.side = "short"], [b EXCEPT !.side = "long"]>>

parse_position_group(b, day) ==
    LET found == card_legs(b.rows, 1, {})
        sided == [i \in 1..Len(found) |->
                     IF found[i].leg.side # "none" THEN found[i].leg
                     ELSE [found[i].leg EXCEPT
                              !.side = fallback_side(b.rows, found[i].line, found[i].leg.exp, day)]]
    IN  Position(0, normalize_vertical_sides(sided), b.strategy)

min_dte(legs, day) ==
    IF legs = <<>> THEN 999 ELSE MinOf({DaysTo(legs[i].exp, day) : i \in 1..Len(legs)})

any_short_leg(legs, typ) ==
    \E i \in 1..Len(legs) : legs[i].side = "short" /\ (typ = "any" \/ legs[i].type = typ)

any_moneyness(legs, mon) ==
    \E i \in 1..Len(legs) : legs[i].moneyness = mon

assess(strategy, p, day) ==
    LET dte == min_dte(p.legs, day)
    IN  CASE strategy = "covered_call" ->
                IF dte <= 21 /\ any_short_leg(p.legs, "call") THEN "ROLL" ELSE "HOLD"
          [] strategy = "csp" ->
                IF any_short_leg(p.legs, "put") /\ any_moneyness(p.legs, "ITM") THEN "HOLD"
                ELSE IF dte <= 21 /\ any_short_leg(p.legs, "put") THEN "ROLL" ELSE "HOLD"
          [] strategy = "pmcc" ->
                IF dte <= 21 /\ any_short_leg(p.legs, "call") THEN "ROLL" ELSE "HOLD"
          [] strategy = "diagonal" ->
                IF dte <= 21 /\ any_short_leg(p.legs, "any") THEN "ROLL" ELSE "HOLD"
          [] strategy \in {"vertical", "iron_condor", "long_call"} ->
                IF dte <= 21 THEN "CLOSE" ELSE "HOLD"
          [] OTHER -> "HOLD"

\* ---- the pasted blocks ----
Programs == {"monitor_portfolio", "monitor_card"}
CardStrategies ==
    {"covered_call", "csp", "pmcc", "vertical", "diagonal", "iron_condor", "long_call"}

\* The run takes place on 2026-12-17 or on 2027-01-11; the legs expire 15, 43
\* and 320 days after the first of the two.
ExpDays == {<<2027, 1, 1>>, <<2027, 1, 29>>, <<2027, 11, 2>>}
Days == {<<2026, 12, 17>>, <<2027, 1, 11>>}
Styles == {"iso", "mdy", "mdy0", "mdy2"}
Written(style, iso) == DateText(style, IF style = "mdy2" THEN (iso[1] % 100) ELSE iso[1], iso[2], iso[3])
Signs == {"+1", "-1", "1", "", "-2"}
Strikes == {190, 250}
Spot == LastPrice \div 100
MonOf(strike, cp) ==
    IF (cp = "C" /\ strike < Spot) \/ (cp = "P" /\ strike > Spot) THEN "ITM" ELSE "OTM"

\* The leg lines of a paste that writes its dates in one style.
PastedLegs(style) ==
    {LegLine(sg, Written(style, exp), strike, cp, MonOf(strike, cp)) :
        sg \in Signs, exp \in ExpDays, strike \in Strikes, cp \in {"C", "P"}}

\* No leg, one leg or two legs.
ShortRows(style) ==
    {<<>>} \cup {<<a>> : a \in PastedLegs(style)}
        \cup {<<a, b>> : a \in PastedLegs(style), b \in PastedLegs(style)}

\* A leg with no quantity of its own next to a line that holds one.
SplitRows(style) ==
    UNION {{<<QtyLine(sg), a>>, <<a, QtyLine(sg)>>, <<a, b, QtyLine(sg)>>} :
              sg \in {"+1", "-1"},
              a \in {l \in PastedLegs(style) : l.sg = "" /\ l.strike = 250},
              b \in {l \in PastedLegs(style) : l.sg = "-1" /\ l.strike = 190}}

\* Four legs on one expiry: a call pair and a put pair.
CondorRows(style) ==
    {<<LegLine(s1, Written(style, e), 190, "P", "OTM"),
       LegLine(s2, Written(style, e), 250, "P", "ITM"),
       LegLine(s3, Written(style, e), 190, "C", "ITM"),
       LegLine(s4, Written(style, e), 250, "C", "OTM")>> :
        s1 \in {"+1", "-1"}, s2 \in {"+1", "-1"}, s3 \in {"+1", "-1"}, s4 \in {"+1", "-1"},
        e \in ExpDays}

\* Two long calls and a short call, each on an expiry of its own choosing.
LadderRows(style) ==
    {<<LegLine("+1", Written(style, e1), 190, "C", "ITM"),
       LegLine("+1", Written(style, e2), 190, "C", "ITM"),
       LegLine("-1", Written(style, e3), 250, "C", "OTM")>> :
        e1 \in ExpDays, e2 \in ExpDays, e3 \in ExpDays}

Rows ==
    UNION {ShortRows(st) \cup SplitRows(st) \cup CondorRows(st) \cup LadderRows(st) :
              st \in Styles}

Blob(prog, strategy, shares, rows) ==
    [prog |-> prog, strategy |-> strategy, shares |-> shares, rows |-> rows]

PortfolioInit ==
    /\ \E prog \in Programs, shares \in {0, 100}, rows \in Rows :
          \E strategy \in (IF prog = "monitor_card" THEN CardStrategies ELSE {""}) :
              blob = Blob(prog, strategy, shares, rows)
    /\ today \in Days
    /\ pos = NoPos
    /\ verdict = NoVerdict
    /\ IdleSizer
    /\ IdleMonitor
    /\ IdleCalc
    /\ IdlePolicy

ParsePositionsText ==
    /\ blob.prog = "monitor_portfolio" /\ pos = NoPos
    /\ pos' \in parse_positions_text(blob)
    /\ UNCHANGED <<blob, today, verdict, sizerVars, monitorVars, calcVars, policyVars>>

EvaluatePosition ==
    /\ blob.prog = "monitor_portfolio" /\ pos # NoPos /\ verdict = NoVerdict
    /\ verdict' = [action |-> evaluate_position(pos, today)]
    /\ UNCHANGED <<blob, today, pos, sizerVars, monitorVars, calcVars, policyVars>>

ParsePositionGroup ==
    /\ blob.prog = "monitor_card" /\ pos = NoPos
    /\ pos' = parse_position_group(blob, today)
    /\ UNCHANGED <<blob, today, verdict, sizerVars, monitorVars, calcVars, policyVars>>

Assess ==
    /\ blob.prog = "monitor_card" /\ pos # NoPos /\ verdict = NoVerdict
    /\ verdict' = [action |-> assess(blob.strategy, pos, today)]
    /\ UNCHANGED <<blob, today, pos, sizerVars, monitorVars, calcVars, policyVars>>

PortfolioNext == ParsePositionsText \/ EvaluatePosition \/ ParsePositionGroup \/ Assess

SpecPortfolio == PortfolioInit /\ [][PortfolioNext]_vars

(***************************************************************************)
(* Leg extraction and underlying detection                                  *)
(***************************************************************************)

Parsed == pc \in {"parsed", "done"}
UnitQty(o) == o.qty \in {0 - 1, 1}
FieldsOf(os) == [i \in 1..Len(os) |-> <<os[i].dte, os[i].delta, os[i].oi, os[i].qty>>]
LastRow(t) == t[Len(t)]

\* C2: a leg whose quantity resolves to neither +1 nor -1 is dropped: leg
\* extraction never emits it and no ticket holds it.
C2_OnlyUnitQuantityLegs ==
    /\ \A i \in 1..Len(opts) : UnitQty(opts[i])
    /\ \A t \in tickets : \A i \in 1..Len(t.legs) : UnitQty(t.legs[i])

C4_PriceOnlyFromNextLine ==
    pc # "start" =>
        \A sym \in Symbols :
            under[sym] # None =>
                \E i \in 1..(Len(lines) - 1) :
                    /\ lines[i] = TickerLine(sym)
                    /\ MoneyMatch(lines[i + 1]) = under[sym]

(***************************************************************************)
(* Classification and recommendations                                       *)
(***************************************************************************)

\* The side a pasted line shows for its leg.
ShownSide(sg) ==
    CASE sg \in {"+1", "1"} -> "long"
      [] sg \in {"-1", "-2"} -> "short"
      [] OTHER -> "none"

LegRows == SelectSeq(blob.rows, LAMBDA r : r.k = "leg")
ShownLegs ==
    [i \in 1..Len(LegRows) |->
        Leg(TypeOf(LegRows[i].cp), ShownSide(LegRows[i].sg), LegRows[i].strike,
            _norm_date(LegRows[i].exp), "")]

\* Every leg line of the paste carries an explicit +1 or -1.
ExplicitSigns == \A i \in 1..Len(LegRows) : LegRows[i].sg \in {"+1", "-1"}

Classified == pos # NoPos
Evaluated == verdict # NoVerdict
Action ==
    CASE verdict.action \in {"roll", "ROLL"} -> "Roll"
      [] verdict.action \in {"close", "CLOSE"} -> "Close"
      [] verdict.action \in {"hold", "HOLD"} -> "Hold"
      [] OTHER -> "none"

DteOfLeg(l) == DaysTo(l.exp, today)
PositionDte == IF pos.legs = <<>> THEN 999 ELSE MinOf({DteOfLeg(pos.legs[i]) : i \in 1..Len(pos.legs)})

\* Two legs of one type on one expiry, at two strikes, with opposite sides.
VerticalShape(legs) ==
    /\ Len(legs) = 2
    /\ legs[1].exp = legs[2].exp /\ legs[1].type = legs[2].type
    /\ legs[1].strike # legs[2].strike
    /\ {legs[1].side, legs[2].side} = {"long", "short"}

\* A long call, a short call, a long put and a short put.
CondorShape(legs) ==
    /\ Len(legs) = 4
    /\ \A t \in {"call", "put"}, sd \in {"long", "short"} : Len(Sel(legs, t, sd)) = 1

\* The position is a vertical or an iron condor: by its legs for
\* monitor_portfolio, by the strategy the user names for monitor_card.
DefinedRisk ==
    IF blob.prog = "monitor_card" THEN blob.strategy \in {"vertical", "iron_condor"}
    ELSE blob.shares = 0 /\ (VerticalShape(ShownLegs) \/ CondorShape(ShownLegs))

\* The option type a strategy sells.
SoldType(strategy) ==
    CASE strategy = "csp" -> {"put"}
      [] strategy \in {"covered_call", "pmcc"} -> {"call"}
      [] OTHER -> {"call", "put"}

ShortLegDue ==
    \E i \in 1..Len(pos.legs) :
        /\ pos.legs[i].side = "short" /\ pos.legs[i].type \in SoldType(pos.strategy)
        /\ DteOfLeg(pos.legs[i]) <= 21

\* C5: a position whose short leg has dte <= 21 is told to Roll (a short leg
\* with dte = 15 yields Roll).
C5_RollAtTwentyOneDays ==
    (Evaluated /\ ExplicitSigns
       /\ pos.strategy \in {"covered_call", "csp", "pmcc", "diagonal"} /\ ShortLegDue)
        => Action = "Roll"

\* C6: a vertical spread or an iron condor whose dte is <= 21 is told to
\* Close, not Roll or Hold.
C6_CloseDefinedRisk ==
    (Evaluated /\ ExplicitSigns /\ DefinedRisk /\ PositionDte <= 21) => Action = "Close"

\* The paste marks every leg out of the money, so that no short leg can
\* carry a delta above 0.55.
AllOtm == \A i \in 1..Len(LegRows) : LegRows[i].mon = "OTM"

\* C7: for a position of one of the monitored strategies, with no short leg
\* at dte <= 21, every leg out of the money (so no delta above 0.55), and no
\* vertical or iron condor at dte <= 21, the recommendation is Hold.
C7_HoldOtherwise ==
    (Evaluated /\ ExplicitSigns /\ AllOtm
       /\ pos.strategy \in {"covered_call", "csp", "pmcc", "diagonal", "vertical", "iron_condor"}
       /\ ~(\E i \in 1..Len(pos.legs) : pos.legs[i].side = "short" /\ DteOfLeg(pos.legs[i]) <= 21)
       /\ ~(DefinedRisk /\ PositionDte <= 21))
        => Action = "Hold"

\* C8: two legs with the same symbol, expiration and option type and opposite
\* signs are classified as a vertical spread.
C8_TwoLegsAreVertical ==
    (Classified /\ blob.prog = "monitor_portfolio" /\ blob.shares = 0
       /\ ExplicitSigns /\ VerticalShape(ShownLegs))
        => pos.strategy = "vertical"

\* C9: a long call, a short call, a long put and a short put on one
\* underlying are classified as an iron condor.
C9_FourLegsAreCondor ==
    (Classified /\ blob.prog = "monitor_portfolio" /\ blob.shares = 0
       /\ ExplicitSigns /\ CondorShape(ShownLegs))
        => pos.strategy = "iron_condor"

\* The shape of a strategy, on the legs as the paste shows them.
ShapeOf(strategy, legs) ==
    CASE strategy = "covered_call" ->
            Len(Sel(legs, "call", "short")) = 1 /\ \A i \in 1..Len(legs) : legs[i].side # "long"
      [] strategy = "csp" -> Len(legs) = 1 /\ legs[1].type = "put" /\ legs[1].side = "short"
      [] strategy = "pmcc" ->
            /\ \E i \in 1..Len(legs) :
                  legs[i].type = "call" /\ legs[i].side = "long" /\ DteOfLeg(legs[i]) >= 90
            /\ \E i \in 1..Len(legs) :
                  /\ legs[i].type = "call" /\ legs[i].side = "short"
                  /\ 7 <= DteOfLeg(legs[i]) /\ DteOfLeg(legs[i]) <= 60
      [] strategy = "vertical" -> VerticalShape(legs)
      [] strategy = "iron_condor" -> CondorShape(legs)
      [] OTHER -> TRUE

\* C10: a group that matches no strategy shape is reported unclassified, and
\* no leg's long/short sign is altered, guessed or defaulted: every leg has
\* the side a line of the paste shows for it, and a group is given a
\* strategy only when its legs, as shown, have that strategy's shape.
C10_NoSignCoercion ==
    Classified =>
        /\ \A i \in 1..Len(pos.legs) :
              \E j \in 1..Len(LegRows) :
                  /\ <<_norm_date(LegRows[j].exp), LegRows[j].strike, TypeOf(LegRows[j].cp)>>
                        = <<pos.legs[i].exp, pos.legs[i].strike, pos.legs[i].type>>
                  /\ ShownSide(LegRows[j].sg) = pos.legs[i].side
        /\ (blob.prog = "monitor_portfolio" => ShapeOf(pos.strategy, ShownLegs))

(***************************************************************************)
(* Strategy shapes                                                          *)
(***************************************************************************)

Shorts(legs) == SelectSeq(legs, LAMBDA l : l.side = "short")
Longs(legs) == SelectSeq(legs, LAMBDA l : l.side = "long")

\* C11: a group is classified as a covered call only when it holds exactly
\* one short call and no long option leg.
C11_CoveredCallShape ==
    (Classified /\ blob.prog = "monitor_portfolio" /\ ExplicitSigns
       /\ pos.strategy = "covered_call")
        => (Len(Sel(ShownLegs, "call", "short")) = 1 /\ Longs(ShownLegs) = <<>>)

\* No contract is pasted twice.
DistinctLegs ==
    \A i, j \in 1..Len(LegRows) :
        i # j => <<_norm_date(LegRows[i].exp), LegRows[i].strike, LegRows[i].cp>>
                    # <<_norm_date(LegRows[j].exp), LegRows[j].strike, LegRows[j].cp>>

\* C12: a position classified as a covered call or a cash-secured put holds
\* exactly one short leg.
C12_OneShortLeg ==
    (Classified /\ blob.prog = "monitor_portfolio" /\ ExplicitSigns /\ DistinctLegs
       /\ pos.strategy \in {"covered_call", "csp"})
        => Len(Shorts(pos.legs)) = 1

Done == pc = "done"

\* The legs the claim's shape asks for, as extracted.
IsLeapLong(o) ==
    /\ o.cp = "C" /\ o.qty = 1
    /\ o.dte # None /\ o.dte >= 90
    /\ (o.delta = None \/ o.delta >= 65)
IsNearShort(o) ==
    /\ o.cp = "C" /\ o.qty = 0 - 1
    /\ o.dte # None /\ 7 <= o.dte /\ o.dte <= 60

\* C13: a symbol group of a long call with dte >= 90 and delta >= 0.65 or
\* unknown and a short call with dte in [7, 60] is classified as a poor man's
\* covered call (here: even when the long call is in the money and the short
\* call out of the money).
C13_LeapPlusShortIsPmcc ==
    (Done /\ script = "pmcc_monitor" /\ Len(opts) = 2
       /\ opts[1].symbol = opts[2].symbol
       /\ \E i, j \in 1..2 :
             /\ IsLeapLong(opts[i]) /\ opts[i].itm_flag = "ITM"
             /\ IsNearShort(opts[j]) /\ opts[j].itm_flag = "OTM")
        => \E t \in tickets : t.kind = "pmcc" /\ t.symbol = opts[1].symbol

\* One run of a monitor's main() on a pasted text: detect the underlyings,
\* extract the legs, choose the legs of each position.
RunMain(prog, ls) ==
    LET und == detect_underlyings(ls)
        os == parse_options(prog, ls)
    IN  CASE prog = "pmcc_monitor" -> pmcc_main(und, os)
          [] prog = "csp_monitor" -> csp_main(und, os)
          [] prog = "covered_call_monitor" -> cc_main(und, os)
          [] prog = "verticals_monitor" -> verticals_main(os)
          [] OTHER -> u2_main(P, und, os)

\* A text of two legs under a quote of the underlying.
IsTwoLegText(t) == Len(t) = 6 /\ t[3].k = "header" /\ t[5].k = "header"

\* The same text with its legs pasted in the other order.
Reordered(t) == IF IsTwoLegText(t) THEN <<t[1], t[2], t[5], t[6], t[3], t[4]>> ELSE t

ChosenLegs(ts) == {<<t.kind, t.symbol, t.legs>> : t \in ts}

\* C14: the legs chosen for a position depend on the set of extracted legs
\* alone, not on the order in which the legs are pasted, ties on the selection
\* key included (stated for legs of quantity +1 or -1).
C14_ChoiceIgnoresOrder ==
    (Done /\ \A i \in 1..Len(opts) : UnitQty(opts[i]))
        => ChosenLegs(RunMain(script, Reordered(lines))) = ChosenLegs(tickets)

\* The positions and the action one run on the pasted block can give when it
\* takes place on the given day.
RunOn(b, day) ==
    IF b.prog = "monitor_portfolio"
    THEN {<<p, evaluate_position(p, day)>> : p \in parse_positions_text(b)}
    ELSE {<<parse_position_group(b, day), assess(b.strategy, parse_position_group(b, day), day)>>}

\* C15: a second run on the same text gives the same position and the same
\* recommendation as the first, whatever the day on which it takes place
\* (stated for pastes whose legs all carry an explicit sign).
C15_SameTextSameResult ==
    (Evaluated /\ ExplicitSigns)
        => \A day \in Days : RunOn(blob, day) = {<<pos, verdict.action>>}

(***************************************************************************)
(* Error handling                                                           *)
(***************************************************************************)

\* The number a token of a numeric column denotes, in hundredths for a
\* decimal column; None for a word.
Denotes(t, decimal) ==
    CASE t.k = "int" -> IF decimal THEN 100 * t.n ELSE t.n
      [] t.k = "dec" /\ decimal -> t.n
      [] OTHER -> None

\* C16: when one of dte, delta and open interest of a data row does not parse
\* and the quantity is +1 or -1, the leg is still emitted: the failing field
\* is none and every other field is as the row and its header give it.
C16_BadFieldKeepsLeg ==
    (Parsed /\ lines \in BadFieldTexts)
        => /\ Len(opts) = 1
           /\ LET h == lines[1]
                  r == lines[2].toks
                  o == opts[1]
              IN  /\ <<o.symbol, o.exp, o.strike, o.cp>> = <<h.sym, h.exp, h.strike, h.cp>>
                  /\ o.mark = r[1].n /\ o.itm_flag = r[2].s
                  /\ o.dte = Denotes(r[3], FALSE)
                  /\ o.delta = Denotes(r[4], TRUE)
                  /\ o.oi = Denotes(r[5], FALSE)
                  /\ o.qty = r[6].n

(***************************************************************************)
(* Key metrics                                                              *)
(***************************************************************************)

\* The inputs a printed metric is computed from that are unknown.
MarkMissing(t) == \E i \in 1..Len(t.legs) : t.legs[i].mark = None

\* C17: every risk metric (net credit or debit, breakeven, extrinsic, POP
\* proxy) a report prints is none whenever one of the inputs it is computed
\* from is none; no number stands in for the missing input.
C17_MissingInputGivesNone ==
    Done => \A m \in metrics :
        /\ (m.ticket.kind \in {"bull_call", "bull_put"} /\ MarkMissing(m.ticket))
               => (m.net = None /\ m.breakeven = None)
        /\ (m.ticket.kind = "csp" /\ MarkMissing(m.ticket)) => m.breakeven = None
        /\ (m.ticket.kind \in {"csp", "covered_call"} /\ m.ticket.legs[1].delta = None)
               => m.pop = None
        /\ (m.ticket.kind = "covered_call"
            /\ (MarkMissing(m.ticket) \/ under[m.ticket.symbol] = None))
               => m.extrinsic = None
        /\ (m.ticket.kind = "pmcc"
            /\ (m.ticket.legs[1].mark = None \/ under[m.ticket.symbol] = None))
               => m.extrinsic = None

(***************************************************************************)
(* Empty input                                                              *)
(***************************************************************************)

\* The message one run of a monitor's main() prints on a pasted text.
RunNotice(prog, ls) ==
    LET os == parse_options(prog, ls)
        ts == RunMain(prog, ls)
    IN  CASE prog = "pmcc_monitor" -> pmcc_notice(ls, os, ts)
          [] prog = "csp_monitor" -> csp_notice(ls, os, ts)
          [] prog = "covered_call_monitor" -> cc_notice(ls, os, ts)
          [] prog = "verticals_monitor" -> verticals_notice(ls, os, ts)
          [] OTHER -> u2_notice(ls, os, ts)

\* C18: a run on empty input renders no position, and what it reports differs
\* from what a run reports on a non-empty input in which no leg matched the
\* strategy.
C18_EmptyInputIsDistinct ==
    /\ (Done /\ lines = <<>>) => (tickets = {} /\ notice # "")
    /\ (Done /\ lines # <<>> /\ tickets = {}) => notice # RunNotice(script, <<>>)

(***************************************************************************)
(* Default GTC tiers                                                        *)
(***************************************************************************)

\* The monitors that take --fill and --gtc.
TakesGtc == script \in Scripts \ {"Untitled-2"}

\* Every --fill item has the form SYMBOL=PRICE.
WellFormedFills == \A i \in 1..Len(argv.fill) : argv.fill[i].eq

\* C19: when --gtc is omitted, a rendered ticket's profit targets are computed
\* for the tiers [50] if no --fill was given and for [50, 75] if one was.
C19_DefaultTiers ==
    (Done /\ TakesGtc /\ tickets # {} /\ argv.gtc = <<>> /\ WellFormedFills)
        => tiers = (IF argv.fill = <<>> THEN <<50>> ELSE <<50, 75>>)

(***************************************************************************)
(* Sizer status                                                             *)
(***************************************************************************)

\* The cash left after one contract is below a quarter of the requirement:
\* cash - per < per / 4, that is 4 * cash < 5 * per, on the amounts the sizer
\* works with and without rounding.
LowRemaining == Below(Times(4, FInt(acct.cash_available)), Times(5, PerContract(cand)))

\* The example of the specification: $1,000 of cash, a $1,000 per-trade cap
\* and a put at strike 6, which secures $600 per contract.
SizerExample ==
    /\ acct.cash_available = 1000 /\ acct.per_trade_cap = FInt(1000)
    /\ cand.src = "csp" /\ PerContract(cand) = FInt(600)

\* C20: the status is blocked exactly when no contract fits, tight exactly when
\* one contract fits and the cash left after it is below 25% of the
\* per-contract requirement, ok otherwise; the example gives 1 contract, ok.
C20_StatusOfSizing ==
    SizerResult =>
        /\ (sizing.status = "blocked") <=> (sizing.contracts = 0)
        /\ (sizing.status = "tight") <=> (sizing.contracts = 1 /\ LowRemaining)
        /\ (sizing.status = "ok") <=> (sizing.contracts >= 1 /\ ~(sizing.contracts = 1 /\ LowRemaining))
        /\ SizerExample => (sizing.contracts = 1 /\ sizing.status = "ok")

\* C20 witness: one spread fits and leaves less than a quarter of its
\* requirement ($4.40 debit, $550 of cash), so the status is tight.
C20_Witness ==
    /\ SizerResult
    /\ sizing.kind = "bull_call" /\ cand.debit = 440 /\ acct.cash_available = 550
    /\ sizing.contracts = 1 /\ sizing.status = "tight" /\ LowRemaining

\* C20 witness of the example: $1,000 of cash, a $1,000 cap, $600 per contract.
C20_Example ==
    SizerResult /\ SizerExample /\ sizing.contracts = 1 /\ sizing.status = "ok"

(***************************************************************************)
(* Underlyings                                                              *)
(***************************************************************************)

\* Line i is a bare ticker of the symbol directly followed by a price line.
IsQuoteAt(ls, i, sym) ==
    /\ i < Len(ls) /\ ls[i].k = "ticker" /\ ls[i].sym = sym
    /\ MoneyMatch(ls[i + 1]) # None

\* C21: the Underlying of a symbol holds the price of the first quote of the
\* symbol in the text; a later quote of the same symbol does not change it.
C21_FirstQuoteKept ==
    pc # "start" =>
        \A sym \in Symbols : \A i \in 1..Len(lines) :
            (IsQuoteAt(lines, i, sym) /\ \A j \in 1..(i - 1) : ~IsQuoteAt(lines, j, sym))
                => under[sym] = MoneyMatch(lines[i + 1])

(***************************************************************************)
(* Field ranges and data rows                                               *)
(***************************************************************************)

\* C22: every extracted leg has a delta that is none or lies in [-1, 1].
C22_DeltaInRange ==
    Parsed => \A i \in 1..Len(opts) :
        opts[i].delta = None \/ (0 - 100 <= opts[i].delta /\ opts[i].delta <= 100)

\* The data row of the header at line i as the specification has it: the
\* first of the following ScanWindow lines that begins with "$" and is no
\* label row; 0 if there is none.
FirstDollarRow(ls, i) ==
    LET cands == {j \in (i + 1)..Min(Len(ls), i + ScanWindow) : StartsWithDollar(ls[j])}
    IN  IF cands = {} THEN 0 ELSE CHOOSE j \in cands : \A k \in cands : j <= k

\* One leg per header that has a data row, in the order of the headers.
RECURSIVE LegsFrom(_, _, _)
LegsFrom(prog, ls, i) ==
    IF i > Len(ls) THEN <<>>
    ELSE IF ls[i].k = "header" /\ FirstDollarRow(ls, i) # 0
         THEN <<OptionRow(ls[i], ls[FirstDollarRow(ls, i)].toks,
                          AfterItm(prog, ls[FirstDollarRow(ls, i)].toks))>>
              \o LegsFrom(prog, ls, i + 1)
         ELSE LegsFrom(prog, ls, i + 1)

\* C23: each header takes as data row the first line among the 8 lines after
\* it that begins with "$" and is no label row, and yields a leg from it; a
\* header with no such line yields no leg and every later header is still
\* processed.
C23_DataRowOfEachHeader ==
    Parsed => opts = LegsFrom(script, lines, 1)

\* C29: every leg takes its fields from a data row that lies after its own
\* header and before the next header; a header without a data row of its
\* own does not take the row of a following header.
C29_RowBelongsToHeader ==
    Parsed => \A n \in 1..Len(opts) :
        \E i \in 1..Len(lines) : \E j \in (i + 1)..Len(lines) :
            /\ lines[i].k = "header" /\ lines[i].sym = opts[n].symbol
            /\ lines[i].exp = opts[n].exp /\ lines[i].strike = opts[n].strike
            /\ lines[i].cp = opts[n].cp
            /\ StartsWithDollar(lines[j]) /\ lines[j].toks = opts[n].raw
            /\ \A k \in (i + 1)..(j - 1) : lines[k].k # "header"

\* The row holds no "--" placeholder, so that its tokens are its columns.
NoDashes(r) == \A i \in 1..Len(r) : r[i].k # "dashes"

\* C24: when the 4th token after the ITM/OTM marker does not parse as +1 or
\* -1 (it may be a word or absent) and the 5th token is +1 or -1, the leg's
\* quantity is the 5th token.
C24_QuantityFallback ==
    Parsed => \A n \in 1..Len(opts) :
        LET r == opts[n].raw
            f == ItmIndex(r, ItmSearch(r))
        IN  (/\ NoDashes(r) /\ f # 0
             /\ to_int(Get(r, f + 4)) \notin {0 - 1, 1}
             /\ to_int(Get(r, f + 5)) \in {0 - 1, 1})
                => opts[n].qty = to_int(Get(r, f + 5))

(***************************************************************************)
(* Choice of the PMCC legs                                                  *)
(***************************************************************************)

EligibleLong(o) ==
    IF script = "Untitled-2" THEN u2_is_long_leap_call(o, under[o.symbol], P)
    ELSE is_long_leap_call(o, under[o.symbol])
EligibleShort(o) ==
    IF script = "Untitled-2" THEN u2_is_short_near_call(o, under[o.symbol], P)
    ELSE is_short_near_call(o, under[o.symbol])

\* The distance of a leg to the target of 35 days and |delta| 0.35.
TargetDistance(o) == <<Abs(o.dte - 35), Abs(Abs(o.delta) - 35)>>

AllDeltasKnown == \A i \in 1..Len(opts) : opts[i].delta # None /\ opts[i].dte # None

\* C25: of the eligible legs of its symbol, the long leg of a PMCC ticket
\* is one with the greatest (dte, delta) and its short leg is one with the
\* least distance to the target (dte 35, |delta| 0.35).
C25_PmccLegChoice ==
    (Done /\ script \in {"pmcc_monitor", "Untitled-2"} /\ AllDeltasKnown)
        => \A t \in tickets : \A i \in 1..Len(opts) :
               opts[i].symbol = t.symbol =>
                   /\ EligibleLong(opts[i])
                          => ~LexLess(<<t.legs[1].dte, t.legs[1].delta>>,
                                      <<opts[i].dte, opts[i].delta>>)
                   /\ EligibleShort(opts[i])
                          => ~LexLess(TargetDistance(opts[i]), TargetDistance(t.legs[2]))

(***************************************************************************)
(* Coverage and GTC targets as functions (SpecCalc)                         *)
(***************************************************************************)

Call(fn, basis, tier_list, extr, dte_long, short_mark) ==
    [fn |-> fn, basis |-> basis, tiers |-> tier_list, extr |-> extr,
     dte_long |-> dte_long, short_mark |-> short_mark]

\* What a call returned: the list of (tier, price in cents) of a GTC function
\* (known = FALSE for None), or the cycles, the coverage verdict
\* ("true", "false", "none") and the required credit ("zero", "positive",
\* "none") of a coverage computation.
Ret(known, out, cyc, ok, required) ==
    [known |-> known, out |-> out, cyc |-> cyc, ok |-> ok, required |-> required]
NoRet == Ret(FALSE, <<>>, 0, "pending", "pending")

\* float("x.yzw") of a price given in tenths of a cent: the pasted mark or
\* the --fill argument, which carry any number of decimals.
FM(b) == FDec(b, 1000)

\* gtc_targets with the tier added to, not taken off, the basis.
gtc_targets_markup(credit_basis, tier_list) ==
    IF credit_basis = None THEN Ret(FALSE, <<>>, 0, "", "")
    ELSE Ret(TRUE,
             [i \in 1..Len(tier_list) |->
                 <<tier_list[i],
                   RoundTo(FMaxOf(FH(5),
                                  FMul(FM(credit_basis),
                                       FAdd(FInt(1), FDiv(FInt(tier_list[i]), FInt(100))))),
                           100)>>],
             0, "", "")

\* pmcc_monitor.gtc_targets, csp_monitor.gtc_targets and
\* verticals_monitor.gtc_credit_targets:
\* round(max(0.05, credit_basis * (1 - p/100.0)), 2) for each tier p, the
\* basis in tenths of a cent and the result in cents.
gtc_targets(credit_basis, tier_list) ==
    IF credit_basis = None THEN Ret(FALSE, <<>>, 0, "", "")
    ELSE Ret(TRUE,
             [i \in 1..Len(tier_list) |->
                 <<tier_list[i],
                   RoundTo(FMaxOf(FH(5),
                                  FMul(FM(credit_basis),
                                       FSub(FInt(1), FDiv(FInt(tier_list[i]), FInt(100))))),
                           100)>>],
             0, "", "")

\* covered_call_monitor.gtc_targets on the tiers report() hands it,
\* t = p/100.0 for each percent p of the --gtc list:
\* (int(t*100), max(0.01, round(fill*(1 - t), 2))); None without a fill or
\* without tiers.  The fill is in tenths of a cent.
cc_gtc_targets(fill, tier_list) ==
    IF fill = None \/ tier_list = <<>> THEN Ret(FALSE, <<>>, 0, "", "")
    ELSE Ret(TRUE,
             [i \in 1..Len(tier_list) |->
                 LET t == FDiv(FInt(tier_list[i]), FInt(100))
                 IN  <<FTrunc(FMul(t, FInt(100))),
                       Max(1, RoundTo(FMul(FM(fill), FSub(FInt(1), t)), 100))>>],
             0, "", "")

\* Untitled-2.gtc_target, take_pct being the fraction written p/100 in the
\* policy: max(0.05, round(round(tgt / 0.05) * 0.05, 2)) with
\* tgt = short_mark * (1 - take_pct); the mark is in tenths of a cent.
gtc_target(short_mark, take_pct) ==
    IF short_mark = None THEN Ret(FALSE, <<>>, 0, "", "")
    ELSE LET tgt == FMul(FM(short_mark), FSub(FInt(1), FH(take_pct)))
             nickels == RoundTo(FDiv(tgt, FH(5)), 1)
         IN  Ret(TRUE,
                 <<<<take_pct, Max(5, RoundTo(FMul(FInt(nickels), FH(5)), 100))>>>>,
                 0, "", "")

\* An optional amount in cents as the float the parser gives.
FloatOrNone(c) == IF c = None THEN FNone ELSE FH(c)

\* The "Deep analysis" block of pmcc_monitor.report: required = extr / cyc is
\* None when no cycle is left, and the coverage status is then N/A.
report_coverage(extr, dte_long, short_mark) ==
    LET cyc == cycles_left(dte_long)
        known == extr # FNone /\ cyc > 0
        required == FDiv(extr, FInt(cyc))
    IN  Ret(TRUE, <<>>, cyc,
            IF ~known \/ short_mark = None THEN "none"
            ELSE IF FLeq(FMul(F08, required), FH(short_mark)) THEN "true"
            ELSE "false",
            IF ~known THEN "none" ELSE IF FIsZero(required) THEN "zero" ELSE "positive")

\* Untitled-2.coverage_ok with the cycles it works with.
u2_coverage(extr, dte_long, short_mark) ==
    LET c == coverage_ok(extr, dte_long, short_mark)
    IN  Ret(TRUE, <<>>, cycles_left(dte_long),
            IF c.ok THEN "true" ELSE "false",
            IF c.req = FNone THEN "none"
            ELSE IF FIsZero(c.req) THEN "zero" ELSE "positive")

\* Bounds of the arguments.  A basis is the short leg's pasted mark or the
\* --fill price, in tenths of a cent: whole cents, and $0.058, $0.375 and
\* $1.005, which are not.
MaxBasis == 10
BasisValues == {None, 0, 40, 58, 80, 100, 150, 375, 1005} \cup {200 * k : k \in 1..MaxBasis}
TierValues == {0, 5, 15, 25, 29, 40, 50, 60, 75, 95, 100}
TierLists == {<<>>} \cup {<<p>> : p \in TierValues} \cup {<<50, 75>>, <<25, 60>>}
ExtrValues == {None, 0, 50, 105, 1200}
LongDtes == {30, 45, 50, 51, 81, 90, 110, 111, 141, 320}
ShortMarks == {None, 0, 84, 310}

\* The DTE of the long legs a report is made for: main() reports on a long
\* call that passed is_long_leap_call, so on one of at least that many days.
LeapDtes(least) == {d \in LongDtes : d >= least}

\* A configs/strategy_policy file whose pmcc targets accept a long call from
\* 30 days on, and the targets Untitled-2.main can resolve from the policy and
\* market files.
NearLeapStrategyFile == StrategyFile(TRUE, [leap_min_dte |-> 30], EmptyDict)
ResolvedTargets ==
    {resolve_pmcc_targets(load_strategy_policy(file), load_market_state(js)) :
        file \in StrategyFiles \cup {NearLeapStrategyFile}, js \in MarketFiles}

GtcFns == {"gtc_targets", "cc_gtc_targets", "gtc_target"}
CoverageFns == {"report_coverage", "u2_coverage"}

\* The calls report() makes: the GTC targets of a basis, and the coverage of
\* the long leg main() picked, whose DTE is at least 90 in pmcc_monitor and at
\* least the resolved leap_min_dte in Untitled-2.
CalcInit ==
    /\ call \in {Call(fn, b, ts, None, None, None) :
                    fn \in GtcFns \ {"gtc_target"}, b \in BasisValues, ts \in TierLists}
               \cup {Call("gtc_target", b, <<p>>, None, None, None) :
                        b \in BasisValues, p \in TierValues}
               \cup {Call("report_coverage", None, <<>>, e, d, m) :
                        e \in ExtrValues, d \in LeapDtes(90), m \in ShortMarks}
               \cup UNION {{Call("u2_coverage", None, <<>>, e, d, m) :
                               e \in ExtrValues, d \in LeapDtes(targets.leap_min_dte),
                               m \in ShortMarks} : targets \in ResolvedTargets}
    /\ ret = NoRet
    /\ IdleSizer
    /\ IdleMonitor
    /\ IdlePortfolio
    /\ IdlePolicy

Pending(fn) == ret = NoRet /\ call.fn = fn

GtcTargets ==
    /\ Pending("gtc_targets")
    /\ ret' = gtc_targets(call.basis, call.tiers)
    /\ UNCHANGED <<call, sizerVars, monitorVars, portfolioVars, policyVars>>

CcGtcTargets ==
    /\ Pending("cc_gtc_targets")
    /\ ret' = cc_gtc_targets(call.basis, call.tiers)
    /\ UNCHANGED <<call, sizerVars, monitorVars, portfolioVars, policyVars>>

GtcTarget ==
    /\ Pending("gtc_target")
    /\ ret' = gtc_target(call.basis, call.tiers[1])
    /\ UNCHANGED <<call, sizerVars, monitorVars, portfolioVars, policyVars>>

ReportCoverage ==
    /\ Pending("report_coverage")
    /\ ret' = report_coverage(FloatOrNone(call.extr), call.dte_long, call.short_mark)
    /\ UNCHANGED <<call, sizerVars, monitorVars, portfolioVars, policyVars>>

CoverageOk ==
    /\ Pending("u2_coverage")
    /\ ret' = u2_coverage(FloatOrNone(call.extr), call.dte_long, call.short_mark)
    /\ UNCHANGED <<call, sizerVars, monitorVars, portfolioVars, policyVars>>

CalcNext ==
    GtcTargets \/ CcGtcTargets \/ GtcTarget \/ ReportCoverage \/ CoverageOk

SpecCalc == CalcInit /\ [][CalcNext]_vars

Returned == ret # NoRet

\* C26: the coverage computation works with
\* cycles_left = max(0, floor((long.dte - 21) / 30)); when no cycle is left
\* its result is "fully covered": ok is true and the required credit is 0.
C26_NoCycleIsCovered ==
    (/\ Returned /\ call.fn \in CoverageFns
     /\ call.extr # None /\ call.dte_long # None /\ call.short_mark # None)
        => /\ ret.cyc = Max(0, (call.dte_long - 21) \div 30)
           /\ (ret.cyc = 0 => (ret.ok = "true" /\ ret.required = "zero"))

\* C26 witness: Untitled-2 reported on a long leg of 45 days (the policy file
\* sets leap_min_dte to 30): no cycle is left and the result is fully covered.
C26_Witness ==
    /\ Returned /\ call.fn = "u2_coverage"
    /\ call.extr = 105 /\ call.dte_long = 45 /\ call.short_mark = 84
    /\ ret.cyc = 0 /\ ret.ok = "true" /\ ret.required = "zero"

(***************************************************************************)
(* GTC targets of the credit strategies                                     *)
(***************************************************************************)

GtcReturned == Returned /\ call.fn \in GtcFns /\ ret.known

\* t cents is basis * (1 - p/100) rounded to the nearest $0.05 and floored
\* at $0.05 (either neighbour is accepted at an exact half); the basis b is
\* in tenths of a cent.
IsNickelTarget(t, b, p) ==
    /\ t % 5 = 0
    /\ t >= 5
    /\ \/ t = 5 /\ 2 * b * (100 - p) <= 15000
       \/ 2 * Abs(1000 * t - b * (100 - p)) <= 5000

\* C27: each profit target of a credit strategy is basis * (1 - tier_pct)
\* rounded to the nearest $0.05 with a floor of $0.05.
C27_TargetsRoundedToNickel ==
    GtcReturned =>
        \A i \in 1..Len(ret.out) : IsNickelTarget(ret.out[i][2], call.basis, ret.out[i][1])

\* The step a function rounds its targets to and the floor it applies, in
\* tenths of a cent: Untitled-2 rounds to $0.05, the others to $0.01;
\* covered_call_monitor floors at $0.01, the others at $0.05.
RoundingStep(fn) == IF fn = "gtc_target" THEN 50 ELSE 10
TargetFloor(fn) == IF fn = "cc_gtc_targets" THEN 10 ELSE 50
\* The basis b rounded up to the next multiple of step.
CeilTo(b, step) == step * ((b + step - 1) \div step)

\* C30 (as amended): for every tier between 0 and 100 and every non-negative
\* basis, a credit target never exceeds the larger of the function's floor
\* and the basis rounded up to the step the target is rounded to; so it never
\* exceeds a basis that is at least the floor and a multiple of that step.
C30_TargetWithinBasis ==
    GtcReturned =>
        \A i \in 1..Len(ret.out) :
            10 * ret.out[i][2]
                <= Max(TargetFloor(call.fn), CeilTo(call.basis, RoundingStep(call.fn)))

\* C30 witness: $0.20 of basis, tiers 25 and 60: targets $0.15 and $0.08.
C30_Witness ==
    /\ GtcReturned
    /\ call.fn = "gtc_targets"
    /\ call.basis = 200
    /\ call.tiers = <<25, 60>>
    /\ ret.out = <<<<25, 15>>, <<60, 8>>>>

\* C30 as stated: for every tier between 0 and 100 and every non-negative
\* basis the target never exceeds the basis.
C30_AsStated ==
    GtcReturned => \A i \in 1..Len(ret.out) : 10 * ret.out[i][2] <= call.basis

(***************************************************************************)
(* leap_lifecycle: the policy and its defaults (SpecPolicy)                 *)
(***************************************************************************)

\* The scalar keys of POLICY_DEFAULT["leap_lifecycle"] in the order in which
\* load_policy assigns them.  The first three are read with pick_int, the
\* others with pick_float; integers are kept as they are and floats in
\* hundredths.  The nested "weights" are never assigned and are left out.
PolicyKeys ==
    <<"target_count", "dte_min", "dte_max", "delta_min", "delta_max",
      "prefer_itm_moneyness_min_pct", "prefer_itm_moneyness_max_pct",
      "deprioritize_high_iv_rank_above">>
IntKeys == {"target_count", "dte_min", "dte_max"}
KeySet == {PolicyKeys[i] : i \in 1..Len(PolicyKeys)}

PolicyDefaults ==
    [k \in KeySet |->
        CASE k = "target_count" -> 20
          [] k = "dte_min" -> 300
          [] k = "dte_max" -> 700
          [] k = "delta_min" -> 75
          [] k = "delta_max" -> 92
          [] k = "prefer_itm_moneyness_min_pct" -> 500
          [] k = "prefer_itm_moneyness_max_pct" -> 3000
          [] OTHER -> 5000]

NoPolicy == [k \in KeySet |-> None]

\* A "key: value" line under "leap_lifecycle:".  The value is digits
\* ("int"), digits with one point ("dec", val in hundredths), digits with
\* several points ("dots", which float() rejects) or a word.
PairLine(key, kind, val) == [key |-> key, kind |-> kind, val |-> val]
PairLines ==
    {PairLine("dte_min", "int", 320), PairLine("dte_min", "word", 0),
     PairLine("delta_min", "dec", 72), PairLine("delta_min", "dots", 0),
     PairLine("target_count", "dec", 72), PairLine("delta_max", "int", 1)}

\* data/strategy_policy.yml: absent, or a text with or without the
\* "leap_lifecycle:" block and the pairs in it.
PolicyFile(exists, block, pairs) == [exists |-> exists, block |-> block, pairs |-> pairs]
NoFile == PolicyFile(FALSE, FALSE, <<>>)
MaxPairs == 2
PairSeqs == UNION {[1..n -> PairLines] : n \in 0..MaxPairs}
PolicyFiles == {NoFile} \cup {PolicyFile(TRUE, b, ps) : b \in BOOLEAN, ps \in PairSeqs}

Raises == None - 1

RECURSIVE FirstPair(_, _, _, _)
FirstPair(key, kinds, pairs, i) ==
    IF i > Len(pairs) THEN 0
    ELSE IF pairs[i].key = key /\ pairs[i].kind \in kinds THEN i
    ELSE FirstPair(key, kinds, pairs, i + 1)

pick_int(key, default, pairs) ==
    LET i == FirstPair(key, {"int"}, pairs, 1)
    IN  IF i = 0 THEN default ELSE pairs[i].val

pick_float(key, default, pairs) ==
    LET i == FirstPair(key, {"int", "dec", "dots"}, pairs, 1)
    IN  IF i = 0 THEN default
        ELSE IF pairs[i].kind = "dots" THEN Raises
        ELSE IF pairs[i].kind = "int" THEN 100 * pairs[i].val
        ELSE pairs[i].val

\* The eight assignments of load_policy from the i-th on; an exception ends
\* them and keeps what was assigned before it.
RECURSIVE assign_from(_, _, _)
assign_from(i, inner, pairs) ==
    IF i > Len(PolicyKeys) THEN inner
    ELSE LET k == PolicyKeys[i]
             v == IF k \in IntKeys THEN pick_int(k, inner[k], pairs)
                  ELSE pick_float(k, inner[k], pairs)
         IN  IF v = Raises THEN inner
             ELSE assign_from(i + 1, [inner EXCEPT ![k] = v], pairs)

\* load_policy: policy = POLICY_DEFAULT.copy() is a shallow copy, so
\* policy["leap_lifecycle"] is the dictionary of POLICY_DEFAULT itself and
\* every assignment lands in both.  The result is that shared dictionary.
load_policy(file, defaults) ==
    IF ~file.exists \/ ~file.block \/ file.pairs = <<>> THEN defaults
    ELSE assign_from(1, defaults, file.pairs)

PolicyInit ==
    /\ policyFile = NoFile
    /\ POLICY_DEFAULT = PolicyDefaults
    /\ policy = NoPolicy
    /\ IdleSizer
    /\ IdleMonitor
    /\ IdlePortfolio
    /\ IdleCalc

\* The user writes or replaces data/strategy_policy.yml between runs.
WritePolicyFile ==
    /\ \E f \in PolicyFiles \ {NoFile} : policyFile' = f
    /\ policyFile' # policyFile
    /\ UNCHANGED <<POLICY_DEFAULT, policy, sizerVars, monitorVars, portfolioVars, calcVars>>

RemovePolicyFile ==
    /\ policyFile.exists
    /\ policyFile' = NoFile
    /\ UNCHANGED <<POLICY_DEFAULT, policy, sizerVars, monitorVars, portfolioVars, calcVars>>

\* One invocation: main() calls load_policy(POLICY_YML).
LoadPolicy ==
    /\ policy' = load_policy(policyFile, POLICY_DEFAULT)
    /\ POLICY_DEFAULT' = load_policy(policyFile, POLICY_DEFAULT)
    /\ UNCHANGED <<policyFile, sizerVars, monitorVars, portfolioVars, calcVars>>

PolicyNext == WritePolicyFile \/ RemovePolicyFile \/ LoadPolicy

SpecPolicy == PolicyInit /\ [][PolicyNext]_vars

\* C28: invocations are isolated: loading a policy file that overrides
\* thresholds never changes the hard-coded default policy, so an invocation
\* with no policy file present obtains the original default values.
C28_DefaultsNeverChange ==
    /\ POLICY_DEFAULT = PolicyDefaults
    /\ ~policyFile.exists => load_policy(policyFile, POLICY_DEFAULT) = PolicyDefaults

====
